---- MODULE Spec2Model ----
(***************************************************************************)
(* Model of the JSON round-trip task of wasm-benchmark                     *)
(* (src/tasks/json_parse/rust/src): the seeded generator, the serializer,  *)
(* the recursive-descent parser, the FNV-1a verification hash and the      *)
(* C-ABI boundary (init, alloc, run_task).                                 *)
(*                                                                         *)
(* Representation.  TLC's integers are 32-bit signed, so a Rust u32/i32 is *)
(* kept as its 4 little-endian bytes <<b0, b1, b2, b3>> (an i64 as 8) and  *)
(* the wrapping arithmetic is done limb by limb; an i32 is the same 4      *)
(* bytes read in two's complement, which is what `as i32` does.  A String  *)
(* or byte slice is a sequence of bytes 0..255 (a String's UTF-8 bytes).   *)
(* Sequences are 1-indexed: Rust's bytes[i] is bytes[i + 1] here.          *)
(***************************************************************************)
EXTENDS Integers, Sequences, FiniteSets, TLC

(***************************************************************************)
(* State                                                                   *)
(***************************************************************************)
VARIABLES
    held,       \* library caller: the record sequence it holds
    gen,        \* <<>>, or <<[count, seed, rng_state]>> of the generate call
                \* that made `held`
    text,       \* <<>>, or <<json>>: serialize_to_json(held)
    parsed,     \* <<>>, or <<result>>: parse_json_string(json)
    digest,     \* <<>>, or <<word>>: fnv1a_hash_records(held)
    rng,        \* a caller-owned generator seed (the &mut u32)
    drawn,      \* <<>>, or <<[by, from, ret]>>: the last draw
    draws,      \* number of draws made from `rng`
    pbuf,       \* host: <<>> (null) or <<bytes>>, the last alloc result
    call,       \* host: the last export called
    last_run,   \* host: <<>>, or <<[count, seed, ret, repeat, same]>> of the
                \* last run_task call
    input,      \* parser caller: the byte slice it passes
    outcome     \* parser caller: <<>>, or <<[fn, start, r]>>: the routine it
                \* called last on `input`, the cursor it passed, what it got

(***************************************************************************)
(* Bytes and ASCII literals                                                *)
(***************************************************************************)
Ascii ==
    ("[" :> 91) @@ ("]" :> 93) @@ ("{" :> 123) @@ ("}" :> 125) @@
    ("," :> 44) @@ (":" :> 58) @@ ("\"" :> 34) @@ ("\\" :> 92) @@
    ("-" :> 45) @@ (" " :> 32) @@ ("\t" :> 9) @@ ("\n" :> 10) @@
    ("\r" :> 13) @@ ("0" :> 48) @@ ("1" :> 49) @@ ("2" :> 50) @@
    ("3" :> 51) @@ ("4" :> 52) @@ ("5" :> 53) @@ ("6" :> 54) @@
    ("7" :> 55) @@ ("8" :> 56) @@ ("9" :> 57) @@ ("a" :> 97) @@
    ("b" :> 98) @@ ("d" :> 100) @@ ("e" :> 101) @@ ("f" :> 102) @@
    ("g" :> 103) @@ ("i" :> 105) @@ ("l" :> 108) @@ ("m" :> 109) @@
    ("n" :> 110) @@ ("r" :> 114) @@ ("s" :> 115) @@ ("t" :> 116) @@
    ("u" :> 117) @@ ("v" :> 118) @@ ("x" :> 120) @@ ("/" :> 47)

\* A byte-string literal, one character per element: Lit(<<"[", "]">>) is b"[]".
Lit(chars) == [i \in DOMAIN chars |-> Ascii[chars[i]]]

(***************************************************************************)
(* Fixed-width integers as little-endian byte limbs                        *)
(***************************************************************************)
RECURSIVE ToLimbs(_, _)
\* The k low bytes of the natural number n (n < 2^31).
ToLimbs(n, k) == IF k = 0 THEN <<>> ELSE <<n % 256>> \o ToLimbs(n \div 256, k - 1)

U32(n) == ToLimbs(n, 4)
I64(n) == ToLimbs(n, 8)

IsZero(a) == \A i \in DOMAIN a : a[i] = 0

\* The sign bit of a two's-complement value (value < 0).
IsNegative(a) == a[Len(a)] >= 128

RECURSIVE AddCarry(_, _, _)
AddCarry(a, b, c) ==
    IF a = <<>> THEN <<>>
    ELSE LET s == Head(a) + Head(b) + c
         IN  <<s % 256>> \o AddCarry(Tail(a), Tail(b), s \div 256)

\* u32::wrapping_add (and i64 addition where it cannot overflow).
wrapping_add(a, b) == AddCarry(a, b, 0)

RECURSIVE ColumnSum(_, _, _, _)
\* Sum of a[j] * b[i + 1 - j] for j in 1..n: column i of the schoolbook product.
ColumnSum(a, b, i, n) ==
    IF n = 0 THEN 0 ELSE a[n] * b[i + 1 - n] + ColumnSum(a, b, i, n - 1)

RECURSIVE MulCarry(_, _, _, _)
MulCarry(a, b, i, c) ==
    IF i > Len(a) THEN <<>>
    ELSE LET s == ColumnSum(a, b, i, i) + c
         IN  <<s % 256>> \o MulCarry(a, b, i + 1, s \div 256)

\* u32::wrapping_mul: the product truncated to the operands' width.
wrapping_mul(a, b) == MulCarry(a, b, 1, 0)

\* Two's-complement negation (0 - a, wrapping).
wrapping_neg(a) == AddCarry([i \in DOMAIN a |-> 255 - a[i]], [i \in DOMAIN a |-> 0], 1)

\* i32::unsigned_abs: the magnitude as a u32 (2^31 for i32::MIN).
unsigned_abs(a) == IF IsNegative(a) THEN wrapping_neg(a) ELSE a

RECURSIVE DivRem(_, _)
\* Unsigned division of the limbs a by the small divisor d: `a / d` and `a % d`.
DivRem(a, d) ==
    IF a = <<>> THEN [q |-> <<>>, r |-> 0]
    ELSE LET hi  == DivRem(Tail(a), d)
             cur == hi.r * 256 + Head(a)
         IN  [q |-> <<cur \div d>> \o hi.q, r |-> cur % d]

RECURSIVE LessThan(_, _)
\* Unsigned a < b for limbs of equal length.
LessThan(a, b) ==
    IF a = <<>> THEN FALSE
    ELSE LET n == Len(a)
         IN  \/ a[n] < b[n]
             \/ a[n] = b[n] /\ LessThan(SubSeq(a, 1, n - 1), SubSeq(b, 1, n - 1))

RECURSIVE XorBits(_, _, _)
XorBits(x, y, n) ==
    IF n = 0 THEN 0
    ELSE ((x + y) % 2) + 2 * XorBits(x \div 2, y \div 2, n - 1)

\* `hash ^= byte as u32`: only the low byte of the word changes.
xor_byte(hash, byte) == [hash EXCEPT ![1] = XorBits(hash[1], byte, 8)]

RECURSIVE FromDecimal(_, _)
\* The word (k limbs) written in decimal by the digit sequence ds, mod 256^k.
FromDecimal(ds, k) ==
    IF ds = <<>> THEN ToLimbs(0, k)
    ELSE wrapping_add(wrapping_mul(FromDecimal(SubSeq(ds, 1, Len(ds) - 1), k), ToLimbs(10, k)),
                      ToLimbs(ds[Len(ds)], k))

(***************************************************************************)
(* types.rs: constants                                                     *)
(***************************************************************************)
FNV_OFFSET_BASIS == FromDecimal(<<2, 1, 6, 6, 1, 3, 6, 2, 6, 1>>, 4)
FNV_PRIME == 16777619
LCG_MULTIPLIER == 1664525
LCG_INCREMENT == 1013904223

\* The types of types.rs: a u32 or i32 is its four little-endian bytes.
u8 == 0..255
u32 == [1..4 -> u8]
JsonRecord == [id : u32, value : u32, flag : BOOLEAN, name : Seq(u8)]

(***************************************************************************)
(* generator.rs                                                            *)
(***************************************************************************)
\* Faulty variant: returns the word it read, not the word it wrote.
lcg_returns_old_state(seed) ==
    [seed |-> wrapping_add(wrapping_mul(seed, U32(LCG_MULTIPLIER)), U32(LCG_INCREMENT)),
     ret  |-> seed]

\* linear_congruential_generator(seed: &mut u32) -> u32: `seed` is the caller's
\* word after the call, `ret` the returned word.
linear_congruential_generator(seed) ==
    LET next == wrapping_add(wrapping_mul(seed, U32(LCG_MULTIPLIER)), U32(LCG_INCREMENT))
    IN  [seed |-> next, ret |-> next]

RECURSIVE format_usize(_)
\* format!("{}", n) of a usize: plain decimal.
format_usize(n) ==
    IF n < 10 THEN <<Ascii["0"] + n>>
    ELSE format_usize(n \div 10) \o <<Ascii["0"] + (n % 10)>>

\* Faulty variant: ids and names count from 0.
generate_record_zero_based(i, rng_state) ==
    LET g == linear_congruential_generator(rng_state)
    IN  [record    |-> [id    |-> U32(i),
                        value |-> g.ret,
                        flag  |-> (g.ret[1] % 2 = 0),
                        name  |-> Lit(<<"a">>) \o format_usize(i)],
         rng_state |-> g.seed]

\* Faulty variant: `flag: random_value % 2 != 1`, which the sign of Rust's
\* remainder makes true for every negative value.
generate_record_signed_rem(i, rng_state) ==
    LET g == linear_congruential_generator(rng_state)
    IN  [record    |-> [id    |-> U32(i + 1),
                        value |-> g.ret,
                        flag  |-> (IsNegative(g.ret) \/ g.ret[1] % 2 = 0),
                        name  |-> Lit(<<"a">>) \o format_usize(i + 1)],
         rng_state |-> g.seed]

\* Faulty variant: draws twice for each record and keeps the second word.
generate_record_two_draws(i, rng_state) ==
    LET g == linear_congruential_generator(linear_congruential_generator(rng_state).seed)
    IN  [record    |-> [id    |-> U32(i + 1),
                        value |-> g.ret,
                        flag  |-> (g.ret[1] % 2 = 0),
                        name  |-> Lit(<<"a">>) \o format_usize(i + 1)],
         rng_state |-> g.seed]

\* One pass of the body of `for i in 0..count`: the record pushed and the
\* local rng_state after the draw.
generate_record(i, rng_state) ==
    LET g            == linear_congruential_generator(rng_state)
        random_value == g.ret
    IN  [record    |-> [id    |-> U32(i + 1),
                        value |-> random_value,
                        flag  |-> (random_value[1] % 2 = 0),
                        name  |-> Lit(<<"a">>) \o format_usize(i + 1)],
         rng_state |-> g.seed]

\* `for i in 0..count` from pass i on, with the locals rng_state and records.
generate_loop(i, count, rng_state, records) ==
    LET pass[k \in i..count, state \in u32, pushed \in Seq(JsonRecord)] ==
            IF k >= count THEN [records |-> pushed, rng_state |-> state]
            ELSE pass[k + 1, generate_record(k, state).rng_state,
                      Append(pushed, generate_record(k, state).record)]
    IN  pass[i, rng_state, records]

generate_json_records(count, seed) == generate_loop(0, count, seed, <<>>).records

(***************************************************************************)
(* serializer.rs                                                           *)
(***************************************************************************)
RECURSIVE digit_loop(_, _)
\* `while n > 0 { pos -= 1; buffer[pos] = (n % 10) as u8 + b'0'; n /= 10; }`
\* and the slice buffer[pos..] it leaves.
digit_loop(n, buffer) ==
    IF IsZero(n) THEN buffer
    ELSE LET dr == DivRem(n, 10)
         IN  digit_loop(dr.q, <<dr.r + Ascii["0"]>> \o buffer)

\* Faulty variant: pushes the whole 10-byte buffer, zero digits included.
write_u32_padded(s, value) ==
    IF IsZero(value) THEN Append(s, Ascii["0"])
    ELSE LET digits == digit_loop(value, <<>>)
         IN  s \o [k \in 1..(10 - Len(digits)) |-> Ascii["0"]] \o digits

write_u32_optimized(s, value) ==
    IF IsZero(value) THEN Append(s, Ascii["0"])
    ELSE s \o digit_loop(value, <<>>)

\* Faulty variant: never writes the sign.
write_i32_unsigned(s, value) ==
    IF IsZero(value) THEN Append(s, Ascii["0"])
    ELSE s \o digit_loop(unsigned_abs(value), <<>>)

write_i32_optimized(s, value) ==
    IF IsZero(value) THEN Append(s, Ascii["0"])
    ELSE LET digits == digit_loop(unsigned_abs(value), <<>>)
         IN  s \o (IF IsNegative(value) THEN <<Ascii["-"]>> \o digits ELSE digits)

serialize_record(json, record) ==
    LET s1 == json \o Lit(<<"{", "\"", "i", "d", "\"", ":">>)
        s2 == write_u32_optimized(s1, record.id)
        s3 == s2 \o Lit(<<",", "\"", "v", "a", "l", "u", "e", "\"", ":">>)
        s4 == write_i32_optimized(s3, record.value)
        s5 == s4 \o Lit(<<",", "\"", "f", "l", "a", "g", "\"", ":">>)
        s6 == s5 \o (IF record.flag THEN Lit(<<"t", "r", "u", "e">>)
                                    ELSE Lit(<<"f", "a", "l", "s", "e">>))
        s7 == s6 \o Lit(<<",", "\"", "n", "a", "m", "e", "\"", ":", "\"">>)
        s8 == s7 \o record.name
    IN  s8 \o Lit(<<"\"", "}">>)

\* `for (i, record) in records.iter().enumerate()` from index i on.
serialize_loop(records, i, json) ==
    LET pass[k \in i..Len(records), out \in Seq(u8)] ==
            IF k >= Len(records) THEN out
            ELSE pass[k + 1,
                      serialize_record(IF k > 0 THEN Append(out, Ascii[","]) ELSE out,
                                       records[k + 1])]
    IN  pass[i, json]

serialize_to_json(records) ==
    IF records = <<>> THEN Lit(<<"[", "]">>)
    ELSE Append(serialize_loop(records, 0, Lit(<<"[">>)), Ascii["]"])

(***************************************************************************)
(* hash.rs                                                                 *)
(***************************************************************************)
\* `hash ^= byte as u32; hash = hash.wrapping_mul(FNV_PRIME);`
hash_byte(hash, byte) == wrapping_mul(xor_byte(hash, byte), U32(FNV_PRIME))

\* `for byte in bytes { ... }` over a byte array or slice, in order.
hash_bytes(hash, bytes) ==
    LET pass[k \in 1..(Len(bytes) + 1), h \in u32] ==
            IF k > Len(bytes) THEN h
            ELSE pass[k + 1, hash_byte(h, bytes[k])]
    IN  pass[1, hash]

\* Faulty variant: folds value before id.
hash_record_value_first(hash, record) ==
    LET h1 == hash_bytes(hash, record.value)
        h2 == hash_bytes(h1, record.id)
        h3 == hash_byte(h2, IF record.flag THEN 1 ELSE 0)
    IN  hash_bytes(h3, record.name)

hash_record(hash, record) ==
    LET h1 == hash_bytes(hash, record.id)
        h2 == hash_bytes(h1, record.value)
        h3 == hash_byte(h2, IF record.flag THEN 1 ELSE 0)
    IN  hash_bytes(h3, record.name)

\* `for record in records` from index i on.
hash_loop(records, i, hash) ==
    LET pass[k \in i..Len(records), h \in u32] ==
            IF k >= Len(records) THEN h
            ELSE pass[k + 1, hash_record(h, records[k + 1])]
    IN  pass[i, hash]

fnv1a_hash_records(records) == hash_loop(records, 0, FNV_OFFSET_BASIS)

(***************************************************************************)
(* parser.rs                                                               *)
(*                                                                         *)
(* Every routine takes the byte slice and the cursor `pos` it is called    *)
(* with and yields [tag, pos, val]: `pos` is the caller's cursor (&mut     *)
(* usize) when the routine returns, `tag` is "Ok" (val the value), "Err"   *)
(* (val the ParseError) or "Panic" (a slice index out of bounds or an      *)
(* arithmetic overflow: the routine does not return).                      *)
(***************************************************************************)
Ok(pos, v) == [tag |-> "Ok", pos |-> pos, val |-> v]
Err(pos, e) == [tag |-> "Err", pos |-> pos, val |-> e]
Panic(pos, why) == [tag |-> "Panic", pos |-> pos, val |-> why]

\* types.rs: ParseError.  `message` and `field` are empty where the variant
\* carries none; `field` is a byte string (a &'static str or a String).
ParseError(kind, message, field) == [kind |-> kind, message |-> message, field |-> field]
UnexpectedEndOfInput == ParseError("UnexpectedEndOfInput", "", <<>>)
InvalidNumber(message) == ParseError("InvalidNumber", message, <<>>)
InvalidString(message) == ParseError("InvalidString", message, <<>>)
InvalidBoolean == ParseError("InvalidBoolean", "", <<>>)
MissingField(field) == ParseError("MissingField", "", field)
UnknownField(field) == ParseError("UnknownField", "", field)
InvalidArrayFormat == ParseError("InvalidArrayFormat", "", <<>>)
InvalidObjectFormat == ParseError("InvalidObjectFormat", "", <<>>)

\* What a slice index past the end stands for: no byte value.
OutOfBounds == 255 + 1

\* bytes[i] of a slice, i a usize: the byte, or OutOfBounds where Rust panics.
At(bytes, i) == IF i < Len(bytes) THEN bytes[i + 1] ELSE OutOfBounds

\* bytes[from..to]
Slice(bytes, from, to) == SubSeq(bytes, from + 1, to)

is_ascii_digit(b) == Ascii["0"] <= b /\ b <= Ascii["9"]

RECURSIVE skip_whitespace(_, _)
skip_whitespace(bytes, pos) ==
    IF pos < Len(bytes)
       /\ At(bytes, pos) \in {Ascii[" "], Ascii["\t"], Ascii["\n"], Ascii["\r"]}
    THEN skip_whitespace(bytes, pos + 1)
    ELSE pos

\* The bytes a UTF-8 lead byte `lead` admits as its k-th continuation byte
\* (the table of well-formed sequences, Unicode 15 table 3-7).
Utf8Tail(lead, k) ==
    IF k > 1 THEN 128..191
    ELSE CASE lead = 224 -> 160..191
           [] lead = 237 -> 128..159
           [] lead = 240 -> 144..191
           [] lead = 244 -> 128..143
           [] OTHER -> 128..191

\* The length of the sequence a byte starts; 0 for a byte that starts none.
Utf8Len(lead) ==
    CASE lead <= 127 -> 1
      [] lead \in 194..223 -> 2
      [] lead \in 224..239 -> 3
      [] lead \in 240..244 -> 4
      [] OTHER -> 0

\* Faulty variant: only ASCII bytes are accepted.
is_utf8_ascii_only(b) == \A i \in DOMAIN b : b[i] < 128

\* std::str::from_utf8(..).is_ok(): every byte that is no continuation byte
\* starts a well-formed sequence, and every continuation byte lies in one.
is_utf8(b) ==
    /\ \A i \in 1..Len(b) :
          b[i] \notin 128..191 =>
            /\ Utf8Len(b[i]) > 0
            /\ i + Utf8Len(b[i]) - 1 <= Len(b)
            /\ \A k \in 1..(Utf8Len(b[i]) - 1) : b[i + k] \in Utf8Tail(b[i], k)
    /\ \A i \in 1..Len(b) :
          b[i] \in 128..191 =>
            \E j \in 1..(i - 1) :
                /\ b[j] \notin 128..191
                /\ j + Utf8Len(b[j]) > i
                /\ \A k \in (j + 1)..i : b[k] \in 128..191

\* String::push(c as char) for a byte c: the UTF-8 encoding of U+0000..U+00FF.
push_char(result, c) ==
    IF c < 128 THEN Append(result, c)
    ELSE result \o <<192 + (c \div 64), 128 + (c % 64)>>

RECURSIVE string_scan(_, _, _, _)
\* The scan loop of parse_json_string_value (lines 181-220): a Result when the
\* routine returns from it, else tag "Escapes" with the cursor it leaves.
string_scan(bytes, start, pos, has_escapes) ==
    IF pos < Len(bytes)
    THEN LET b == At(bytes, pos)
         IN  CASE b = Ascii["\""] ->
                    IF ~has_escapes
                    THEN IF is_utf8(Slice(bytes, start, pos))
                         THEN Ok(pos + 1, Slice(bytes, start, pos))
                         ELSE Err(pos, InvalidString("Invalid UTF-8 in string"))
                    ELSE [tag |-> "Escapes", pos |-> pos + 1, val |-> <<>>]
               [] b = Ascii["\\"] ->
                    IF pos + 1 >= Len(bytes)
                    THEN Err(pos + 1, InvalidString("Incomplete escape sequence"))
                    ELSE string_scan(bytes, start, pos + 2, TRUE)
               [] OTHER -> string_scan(bytes, start, pos + 1, has_escapes)
    ELSE IF ~has_escapes
         THEN Err(pos, InvalidString("Unterminated string"))
         ELSE [tag |-> "Escapes", pos |-> pos, val |-> <<>>]

RECURSIVE string_unescape_lenient(_, _, _, _)
\* Faulty variant: a backslash before any other byte stands for that byte.
string_unescape_lenient(bytes, i, pos, result) ==
    IF i < pos - 1
    THEN LET c == At(bytes, i)
         IN  IF c = OutOfBounds THEN Panic(pos, "index out of bounds")
             ELSE IF c = Ascii["\\"]
             THEN IF i + 1 >= pos - 1 THEN Ok(pos, result)
                  ELSE LET e == At(bytes, i + 1)
                       IN  CASE e = OutOfBounds -> Panic(pos, "index out of bounds")
                             [] e = Ascii["n"] ->
                                  string_unescape_lenient(bytes, i + 2, pos, Append(result, Ascii["\n"]))
                             [] e = Ascii["r"] ->
                                  string_unescape_lenient(bytes, i + 2, pos, Append(result, Ascii["\r"]))
                             [] e = Ascii["t"] ->
                                  string_unescape_lenient(bytes, i + 2, pos, Append(result, Ascii["\t"]))
                             [] OTHER ->
                                  string_unescape_lenient(bytes, i + 2, pos, push_char(result, e))
             ELSE string_unescape_lenient(bytes, i + 1, pos, push_char(result, c))
    ELSE Ok(pos, result)

RECURSIVE string_unescape(_, _, _, _)
\* The escape-processing loop (lines 223-254): `while i < *pos - 1`.
string_unescape(bytes, i, pos, result) ==
    IF i < pos - 1
    THEN LET c == At(bytes, i)
         IN  IF c = OutOfBounds THEN Panic(pos, "index out of bounds")
             ELSE IF c = Ascii["\\"]
             THEN IF i + 1 >= pos - 1 THEN Ok(pos, result)
                  ELSE LET e == At(bytes, i + 1)
                       IN  CASE e = OutOfBounds -> Panic(pos, "index out of bounds")
                             [] e = Ascii["\""] ->
                                  string_unescape(bytes, i + 2, pos, Append(result, Ascii["\""]))
                             [] e = Ascii["\\"] ->
                                  string_unescape(bytes, i + 2, pos, Append(result, Ascii["\\"]))
                             [] e = Ascii["n"] ->
                                  string_unescape(bytes, i + 2, pos, Append(result, Ascii["\n"]))
                             [] e = Ascii["r"] ->
                                  string_unescape(bytes, i + 2, pos, Append(result, Ascii["\r"]))
                             [] e = Ascii["t"] ->
                                  string_unescape(bytes, i + 2, pos, Append(result, Ascii["\t"]))
                             [] OTHER ->
                                  Err(pos, InvalidString("Unsupported escape sequence"))
             ELSE string_unescape(bytes, i + 1, pos, push_char(result, c))
    ELSE Ok(pos, result)

\* Lines 216-254: what follows the scan loop.
string_after_scan(bytes, start, scan) ==
    IF scan.tag # "Escapes" THEN scan
    ELSE string_unescape(bytes, start, scan.pos, <<>>)

\* Lines 170-214, with `pos` the cursor after skip_whitespace.
string_open(bytes, pos) ==
    IF pos >= Len(bytes) \/ At(bytes, pos) # Ascii["\""]
    THEN Err(pos, InvalidString("Expected string starting with '\"'"))
    ELSE string_after_scan(bytes, pos + 1, string_scan(bytes, pos + 1, pos + 1, FALSE))

parse_json_string_value(bytes, pos0) == string_open(bytes, skip_whitespace(bytes, pos0))

\* i64 values (8 limbs, two's complement)
I64_MAX == [i \in 1..8 |-> IF i = 8 THEN 127 ELSE 255]
I32_MIN_AS_I64 == [i \in 1..8 |-> IF i < 4 THEN 0 ELSE IF i = 4 THEN 128 ELSE 255]
I32_MAX_AS_I64 == [i \in 1..8 |-> IF i < 4 THEN 255 ELSE IF i = 4 THEN 127 ELSE 0]

\* Faulty variant: the comparison reads both operands as unsigned.
unsigned_less(a, b) == LessThan(a, b)

\* Signed a < b for two's-complement limbs of equal length.
SignedLess(a, b) ==
    IF IsNegative(a) # IsNegative(b) THEN IsNegative(a) ELSE LessThan(a, b)

\* `result * 10 + digit` in i64, result >= 0: the value, or <<>> when it does
\* not fit (a debug build panics there, a release build wraps).
checked_mul10_add(result, digit) ==
    LET wide == wrapping_add(wrapping_mul(Append(result, 0), ToLimbs(10, 9)),
                             ToLimbs(digit, 9))
    IN  IF wide[9] # 0 \/ wide[8] >= 128 THEN <<>> ELSE SubSeq(wide, 1, 8)

RECURSIVE number_loop(_, _, _, _)
\* `while *pos < bytes.len() && bytes[*pos].is_ascii_digit()` and what follows
\* it (lines 278-299).
number_loop(bytes, pos, result, negative) ==
    IF pos < Len(bytes) /\ is_ascii_digit(At(bytes, pos))
    THEN LET digit == At(bytes, pos) - Ascii["0"]
             limit == DivRem(wrapping_add(I64_MAX, wrapping_neg(I64(digit))), 10).q
             next  == checked_mul10_add(result, digit)
         IN  IF SignedLess(limit, result)
             THEN Err(pos, InvalidNumber("Number overflow"))
             ELSE IF next = <<>> THEN Panic(pos, "arithmetic overflow")
             ELSE number_loop(bytes, pos + 1, next, negative)
    ELSE LET final_result == IF negative THEN wrapping_neg(result) ELSE result
         IN  IF SignedLess(final_result, I32_MIN_AS_I64)
                \/ SignedLess(I32_MAX_AS_I64, final_result)
             THEN Err(pos, InvalidNumber("Number out of range"))
             ELSE Ok(pos, SubSeq(final_result, 1, 4))

\* Faulty variant: without the end-of-input check of lines 260-262.
number_open_unchecked(bytes, pos) ==
    LET first    == At(bytes, pos)
        negative == first = Ascii["-"]
        pos1     == IF negative THEN pos + 1 ELSE pos
    IN  IF first = OutOfBounds THEN Panic(pos, "index out of bounds")
        ELSE IF pos1 >= Len(bytes) \/ ~is_ascii_digit(At(bytes, pos1))
        THEN Err(pos1, InvalidNumber("Expected digit"))
        ELSE number_loop(bytes, pos1, I64(0), negative)

\* Lines 260-276, with `pos` the cursor after skip_whitespace.
number_open(bytes, pos) ==
    LET first    == At(bytes, pos)
        negative == first = Ascii["-"]
        pos1     == IF negative THEN pos + 1 ELSE pos
    IN  IF pos >= Len(bytes) THEN Err(pos, UnexpectedEndOfInput)
        ELSE IF first = OutOfBounds THEN Panic(pos, "index out of bounds")
        ELSE IF pos1 >= Len(bytes) \/ ~is_ascii_digit(At(bytes, pos1))
        THEN Err(pos1, InvalidNumber("Expected digit"))
        ELSE number_loop(bytes, pos1, I64(0), negative)

parse_json_number(bytes, pos0) == number_open(bytes, skip_whitespace(bytes, pos0))

\* Lines 305-332, with `pos` the cursor after skip_whitespace.
boolean_open(bytes, pos) ==
    IF pos >= Len(bytes) THEN Err(pos, UnexpectedEndOfInput)
    ELSE IF /\ pos + 4 <= Len(bytes)
            /\ At(bytes, pos) = Ascii["t"]
            /\ At(bytes, pos + 1) = Ascii["r"]
            /\ At(bytes, pos + 2) = Ascii["u"]
            /\ At(bytes, pos + 3) = Ascii["e"]
    THEN Ok(pos + 4, TRUE)
    ELSE IF /\ pos + 5 <= Len(bytes)
            /\ At(bytes, pos) = Ascii["f"]
            /\ At(bytes, pos + 1) = Ascii["a"]
            /\ At(bytes, pos + 2) = Ascii["l"]
            /\ At(bytes, pos + 3) = Ascii["s"]
            /\ At(bytes, pos + 4) = Ascii["e"]
    THEN Ok(pos + 5, FALSE)
    ELSE Err(pos, InvalidBoolean)

parse_json_boolean(bytes, pos0) == boolean_open(bytes, skip_whitespace(bytes, pos0))

\* The four Option locals of parse_json_object: <<>> is None, <<v>> is Some(v).
NoFields == [id |-> <<>>, value |-> <<>>, flag |-> <<>>, name |-> <<>>]

\* Faulty variant: a field that is already set keeps its first value.
store_field_first(r, fields, field) ==
    IF r.tag # "Ok" THEN r
    ELSE IF fields[field] # <<>> THEN Ok(r.pos, fields)
    ELSE Ok(r.pos, [fields EXCEPT ![field] = <<r.val>>])

\* `let parsed = parse(..)?; field = Some(parsed);`: r is the parse's result.
store_field(r, fields, field) ==
    IF r.tag # "Ok" THEN r
    ELSE Ok(r.pos, [fields EXCEPT ![field] = <<r.val>>])

\* Faulty variant: the value of a member with any other key is read as a
\* number and the key is not reported.
parse_member_value_open(bytes, pos, key, fields) ==
    CASE key = Lit(<<"i", "d">>) ->
           store_field(parse_json_number(bytes, pos), fields, "id")
      [] key = Lit(<<"v", "a", "l", "u", "e">>) ->
           store_field(parse_json_number(bytes, pos), fields, "value")
      [] key = Lit(<<"f", "l", "a", "g">>) ->
           store_field(parse_json_boolean(bytes, pos), fields, "flag")
      [] key = Lit(<<"n", "a", "m", "e">>) ->
           store_field(parse_json_string_value(bytes, pos), fields, "name")
      [] OTHER ->
           IF parse_json_number(bytes, pos).tag # "Ok" THEN parse_json_number(bytes, pos)
           ELSE Ok(parse_json_number(bytes, pos).pos, fields)

\* Faulty variant: a negative id is refused.
parse_member_value_unsigned_id(bytes, pos, key, fields) ==
    CASE key = Lit(<<"i", "d">>) ->
           IF parse_json_number(bytes, pos).tag = "Ok"
              /\ IsNegative(parse_json_number(bytes, pos).val)
           THEN Err(pos, InvalidNumber("Number out of range"))
           ELSE store_field(parse_json_number(bytes, pos), fields, "id")
      [] key = Lit(<<"v", "a", "l", "u", "e">>) ->
           store_field(parse_json_number(bytes, pos), fields, "value")
      [] key = Lit(<<"f", "l", "a", "g">>) ->
           store_field(parse_json_boolean(bytes, pos), fields, "flag")
      [] key = Lit(<<"n", "a", "m", "e">>) ->
           store_field(parse_json_string_value(bytes, pos), fields, "name")
      [] OTHER -> Err(pos, UnknownField(key))

\* Lines 114-133: parse the member's value as its key demands and store it.
\* `parse_json_number(..)? as u32` keeps the 32 bits.
parse_member_value(bytes, pos, key, fields) ==
    CASE key = Lit(<<"i", "d">>) ->
           store_field(parse_json_number(bytes, pos), fields, "id")
      [] key = Lit(<<"v", "a", "l", "u", "e">>) ->
           store_field(parse_json_number(bytes, pos), fields, "value")
      [] key = Lit(<<"f", "l", "a", "g">>) ->
           store_field(parse_json_boolean(bytes, pos), fields, "flag")
      [] key = Lit(<<"n", "a", "m", "e">>) ->
           store_field(parse_json_string_value(bytes, pos), fields, "name")
      [] OTHER -> Err(pos, UnknownField(key))

\* Faulty variant: the fields are validated in the order name, flag, value, id.
validate_fields_reversed(pos, fields) ==
    IF fields.name = <<>> THEN Err(pos, MissingField(Lit(<<"n", "a", "m", "e">>)))
    ELSE IF fields.flag = <<>> THEN Err(pos, MissingField(Lit(<<"f", "l", "a", "g">>)))
    ELSE IF fields.value = <<>> THEN Err(pos, MissingField(Lit(<<"v", "a", "l", "u", "e">>)))
    ELSE IF fields.id = <<>> THEN Err(pos, MissingField(Lit(<<"i", "d">>)))
    ELSE Ok(pos, [id    |-> fields.id[1],
                  value |-> fields.value[1],
                  flag  |-> fields.flag[1],
                  name  |-> fields.name[1]])

\* Lines 153-164: all four fields must be present.
validate_fields(pos, fields) ==
    IF fields.id = <<>> THEN Err(pos, MissingField(Lit(<<"i", "d">>)))
    ELSE IF fields.value = <<>> THEN Err(pos, MissingField(Lit(<<"v", "a", "l", "u", "e">>)))
    ELSE IF fields.flag = <<>> THEN Err(pos, MissingField(Lit(<<"f", "l", "a", "g">>)))
    ELSE IF fields.name = <<>> THEN Err(pos, MissingField(Lit(<<"n", "a", "m", "e">>)))
    ELSE Ok(pos, [id    |-> fields.id[1],
                  value |-> fields.value[1],
                  flag  |-> fields.flag[1],
                  name  |-> fields.name[1]])

RECURSIVE object_loop(_, _, _)

\* Lines 137-150: after a member, `pos` the cursor after skip_whitespace.
object_separator(bytes, pos, fields) ==
    IF pos >= Len(bytes) THEN Err(pos, UnexpectedEndOfInput)
    ELSE CASE At(bytes, pos) = OutOfBounds -> Panic(pos, "index out of bounds")
           [] At(bytes, pos) = Ascii[","] -> object_loop(bytes, pos + 1, fields)
           [] At(bytes, pos) = Ascii["}"] -> validate_fields(pos + 1, fields)
           [] OTHER -> Err(pos, InvalidObjectFormat)

\* Line 135: `member` is the result of lines 114-133.
object_member(bytes, member) ==
    IF member.tag # "Ok" THEN member
    ELSE object_separator(bytes, skip_whitespace(bytes, member.pos), member.val)

\* Lines 107-133: the ':' and the value, `pos` the cursor after skip_whitespace.
object_colon(bytes, pos, key, fields) ==
    IF pos >= Len(bytes) \/ At(bytes, pos) # Ascii[":"]
    THEN Err(pos, InvalidObjectFormat)
    ELSE object_member(bytes,
             parse_member_value(bytes, skip_whitespace(bytes, pos + 1), key, fields))

\* Faulty variant: the ':' must follow the key at once.
object_key_tight(bytes, key, fields) ==
    IF key.tag # "Ok" THEN key
    ELSE object_colon(bytes, key.pos, key.val, fields)

\* Lines 103-105: `key` is the result of parse_json_string_value.
object_key(bytes, key, fields) ==
    IF key.tag # "Ok" THEN key
    ELSE object_colon(bytes, skip_whitespace(bytes, key.pos), key.val, fields)

\* One iteration of the key-value loop of parse_json_object (lines 100-151),
\* and the iterations and the validation that follow it.
object_loop(bytes, pos0, fields) ==
    object_key(bytes, parse_json_string_value(bytes, skip_whitespace(bytes, pos0)), fields)

\* Faulty variant: an object without members yields a record of defaults.
object_body_default(bytes, pos) ==
    IF pos < Len(bytes) /\ At(bytes, pos) = Ascii["}"]
    THEN Ok(pos + 1, [id |-> U32(0), value |-> U32(0), flag |-> FALSE, name |-> <<>>])
    ELSE object_loop(bytes, pos, NoFields)

\* Lines 91-97: after '{', `pos` the cursor after skip_whitespace.
object_body(bytes, pos) ==
    IF pos < Len(bytes) /\ At(bytes, pos) = Ascii["}"]
    THEN Err(pos + 1, InvalidObjectFormat)
    ELSE object_loop(bytes, pos, NoFields)

\* Lines 80-91, `pos` the cursor after skip_whitespace.
object_open(bytes, pos) ==
    IF pos >= Len(bytes) \/ At(bytes, pos) # Ascii["{"]
    THEN Err(pos, InvalidObjectFormat)
    ELSE object_body(bytes, skip_whitespace(bytes, pos + 1))

parse_json_object(bytes, pos0) == object_open(bytes, skip_whitespace(bytes, pos0))

RECURSIVE array_loop(_, _, _)

\* Faulty variant: a ',' must be followed by an object.
array_after_comma_strict(bytes, pos, records) == array_loop(bytes, pos, records)

\* Lines 58-64: after ',', `pos` the cursor after skip_whitespace.
array_after_comma(bytes, pos, records) ==
    IF pos < Len(bytes) /\ At(bytes, pos) = Ascii["]"]
    THEN Ok(pos + 1, records)
    ELSE array_loop(bytes, pos, records)

\* Faulty variant: an input that ends after an object closes the array.
array_separator_lenient(bytes, pos, records) ==
    IF pos >= Len(bytes) THEN Ok(pos, records)
    ELSE CASE At(bytes, pos) = OutOfBounds -> Panic(pos, "index out of bounds")
           [] At(bytes, pos) = Ascii[","] ->
                array_after_comma(bytes, skip_whitespace(bytes, pos + 1), records)
           [] At(bytes, pos) = Ascii["]"] -> Ok(pos + 1, records)
           [] OTHER -> Err(pos, InvalidArrayFormat)

\* Lines 51-71: after an object, `pos` the cursor after skip_whitespace.
array_separator(bytes, pos, records) ==
    IF pos >= Len(bytes) THEN Err(pos, UnexpectedEndOfInput)
    ELSE CASE At(bytes, pos) = OutOfBounds -> Panic(pos, "index out of bounds")
           [] At(bytes, pos) = Ascii[","] ->
                array_after_comma(bytes, skip_whitespace(bytes, pos + 1), records)
           [] At(bytes, pos) = Ascii["]"] -> Ok(pos + 1, records)
           [] OTHER -> Err(pos, InvalidArrayFormat)

\* Lines 46-49: `record` is the result of parse_json_object.
array_record(bytes, record, records) ==
    IF record.tag # "Ok" THEN record
    ELSE array_separator(bytes, skip_whitespace(bytes, record.pos),
                         Append(records, record.val))

\* One iteration of the object loop of parse_json_array (lines 43-72), and
\* the iterations that follow it.
array_loop(bytes, pos0, records) ==
    array_record(bytes, parse_json_object(bytes, skip_whitespace(bytes, pos0)), records)

\* Lines 36-40, `pos` the cursor after the '[' and skip_whitespace.
array_body(bytes, pos) ==
    IF pos < Len(bytes) /\ At(bytes, pos) = Ascii["]"]
    THEN Ok(pos + 1, <<>>)
    ELSE array_loop(bytes, pos, <<>>)

parse_json_array(bytes, pos0) == array_body(bytes, skip_whitespace(bytes, pos0 + 1))

\* Faulty variant: an input that ends before any token is reported as
\* UnexpectedEndOfInput.
array_open_eof(json, pos) ==
    IF pos >= Len(json) THEN Err(pos, UnexpectedEndOfInput)
    ELSE IF At(json, pos) # Ascii["["] THEN Err(pos, InvalidArrayFormat)
    ELSE parse_json_array(json, pos)

\* Lines 12-16, `pos` the cursor after skip_whitespace.
array_open(json, pos) ==
    IF pos >= Len(json) \/ At(json, pos) # Ascii["["]
    THEN Err(pos, InvalidArrayFormat)
    ELSE parse_json_array(json, pos)

\* Faulty variant: bytes after the array, other than whitespace, are an error.
parse_json_string_whole(json) ==
    IF array_open(json, skip_whitespace(json, 0)).tag = "Ok"
       /\ skip_whitespace(json, array_open(json, skip_whitespace(json, 0)).pos) < Len(json)
    THEN Err(array_open(json, skip_whitespace(json, 0)).pos, InvalidArrayFormat)
    ELSE array_open(json, skip_whitespace(json, 0))

parse_json_string(json) == array_open(json, skip_whitespace(json, 0))

(***************************************************************************)
(* matrix_mul/rust/src/generation.rs: the matrix task's generator          *)
(***************************************************************************)
MATRIX_LCG_MULTIPLIER == 1664525
MATRIX_LCG_INCREMENT == 1013904223

matrix_linear_congruential_generator(seed) ==
    LET next == wrapping_add(wrapping_mul(seed, U32(MATRIX_LCG_MULTIPLIER)),
                             U32(MATRIX_LCG_INCREMENT))
    IN  [seed |-> next, ret |-> next]

(***************************************************************************)
(* lib.rs: the C-ABI boundary                                              *)
(***************************************************************************)
\* A usize read from a u32 word.
ToNat(w) == w[1] + 256 * w[2] + 65536 * w[3] + 16777216 * w[4]

\* lines 61-66: the hash of the parsed records, or the sentinel 0 on Err.
\* A panic does not return a value.
run_task_result(parse_result) ==
    CASE parse_result.tag = "Ok" -> fnv1a_hash_records(parse_result.val)
      [] parse_result.tag = "Err" -> U32(0)
      [] OTHER -> "abort"

\* Faulty variant: reads the seed from word 0, where the count is.
run_task_seed_from_count(params) ==
    LET record_count == ToNat(SubSeq(params, 1, 4))
        seed_word    == SubSeq(params, 1, 4)
        json_string  == serialize_to_json(generate_json_records(record_count, seed_word))
    IN  [ret    |-> run_task_result(parse_json_string(json_string)),
         params |-> params]

\* Faulty variant: keeps the generator state in the parameter buffer.
run_task_writes_seed(params) ==
    LET record_count == ToNat(SubSeq(params, 1, 4))
        seed_word    == SubSeq(params, 5, 8)
        generated    == generate_loop(0, record_count, seed_word, <<>>)
        json_string  == serialize_to_json(generated.records)
    IN  [ret    |-> run_task_result(parse_json_string(json_string)),
         params |-> SubSeq(params, 1, 4) \o generated.rng_state]

\* run_task(params_ptr): `params` is the 8 bytes at params_ptr read as two u32
\* words (wasm32 is little-endian).  Yields the returned word and the buffer
\* as the call leaves it.
run_task(params) ==
    LET record_count == ToNat(SubSeq(params, 1, 4))
        seed_word    == SubSeq(params, 5, 8)
        records_     == generate_json_records(record_count, seed_word)
        json_string  == serialize_to_json(records_)
    IN  [ret    |-> run_task_result(parse_json_string(json_string)),
         params |-> params]

\* alloc(n_bytes): the zero-initialized buffer, or <<>> for the null pointer.
\* `sys_ok` is whether the system allocator returns a block.
alloc(n_bytes, sys_ok) ==
    IF n_bytes = 0 THEN <<>>
    ELSE IF ~sys_ok THEN <<>>
    ELSE <<[i \in 1..n_bytes |-> 0]>>

(***************************************************************************)
(* Bounds of the model and the inputs it draws                             *)
(***************************************************************************)
MaxCount == 10        \* records generated by one library call
MaxRecords == 2       \* records a caller builds by hand
MaxDraws == 16        \* generator draws from one seed
MaxParamCount == 2    \* record_count the host writes into the parameter buffer

MaxWord == FromDecimal(<<4, 2, 9, 4, 9, 6, 7, 2, 9, 5>>, 4)

\* Seeds: the tests' seeds, the extremes, and the seeds whose first draw is
\* 0, -1 and i32::MIN.
Seeds ==
    {U32(0), U32(42), U32(12345), MaxWord,
     U32(634785765), U32(653637408),
     FromDecimal(<<2, 7, 8, 2, 2, 6, 9, 4, 1, 3>>, 4)}

\* Seeds the host passes to init and run_task: the tests' seeds and the seed
\* whose first draw is i32::MIN.
HostSeeds ==
    {U32(0), U32(42), U32(12345), FromDecimal(<<2, 7, 8, 2, 2, 6, 9, 4, 1, 3>>, 4)}

I32_MIN == <<0, 0, 0, 128>>
I32_MAX == <<255, 255, 255, 127>>

\* Records a caller may build by hand (the tests' records and the extremes).
RecordPool ==
    {[id |-> U32(1), value |-> U32(123), flag |-> FALSE, name |-> Lit(<<"a", "1">>)],
     [id |-> U32(2), value |-> wrapping_neg(U32(456)), flag |-> TRUE,
      name |-> Lit(<<"a", "2">>)],
     [id |-> U32(0), value |-> U32(0), flag |-> TRUE, name |-> <<>>],
     [id |-> MaxWord, value |-> I32_MIN, flag |-> FALSE,
      name |-> Lit(<<"t", "e", "s", "t">>)],
     [id |-> U32(10), value |-> I32_MAX, flag |-> TRUE, name |-> <<195, 169>>],
     [id |-> I32_MIN, value |-> wrapping_neg(U32(1)), flag |-> FALSE,
      name |-> Lit(<<"a", "\"", "b", "\\">>)],
     [id |-> U32(3), value |-> U32(7), flag |-> TRUE,
      name |-> Lit(<<"x", "\"", "}", "]">>)],
     [id |-> U32(4), value |-> U32(8), flag |-> FALSE, name |-> Lit(<<"\\", "n">>)]}

AllocSizes == {0, 4, 8}

vars == <<held, gen, text, parsed, digest, rng, drawn, draws, pbuf, call, last_run,
          input, outcome>>

lib_vars == <<held, gen, text, parsed, digest>>
parse_vars == <<input, outcome>>
lcg_vars == <<rng, drawn, draws>>
host_vars == <<pbuf, call, last_run>>

InitAll ==
    /\ held = <<>> /\ gen = <<>> /\ text = <<>> /\ parsed = <<>> /\ digest = <<>>
    /\ drawn = <<>> /\ draws = 0
    /\ pbuf = <<>> /\ call = "none" /\ last_run = <<>>
    /\ outcome = <<>>

(***************************************************************************)
(* SpecLcg: a caller drawing from a seed it owns                           *)
(***************************************************************************)
InitLcg == InitAll /\ rng \in Seeds /\ input = <<>>

DrawJson ==
    /\ draws < MaxDraws
    /\ LET g == linear_congruential_generator(rng)
       IN  /\ rng' = g.seed
           /\ drawn' = <<[by |-> "json", from |-> rng, ret |-> g.ret]>>
    /\ draws' = draws + 1
    /\ UNCHANGED <<lib_vars, host_vars, parse_vars>>

DrawMatrix ==
    /\ draws < MaxDraws
    /\ LET g == matrix_linear_congruential_generator(rng)
       IN  /\ rng' = g.seed
           /\ drawn' = <<[by |-> "matrix", from |-> rng, ret |-> g.ret]>>
    /\ draws' = draws + 1
    /\ UNCHANGED <<lib_vars, host_vars, parse_vars>>

NextLcg == DrawJson \/ DrawMatrix

SpecLcg == InitLcg /\ [][NextLcg]_vars

(***************************************************************************)
(* SpecLib: a caller of the library (the unit tests, run_task)             *)
(***************************************************************************)
InitLib == InitAll /\ rng = U32(0) /\ input = <<>>

\* let records = generate_json_records(count, seed)
Generate(count, s) ==
    /\ held = <<>> /\ gen = <<>>
    /\ held' = generate_json_records(count, s)
    /\ gen' = <<[count |-> count, seed |-> s,
                 rng_state |-> generate_loop(0, count, s, <<>>).rng_state]>>
    /\ text' = <<>> /\ parsed' = <<>> /\ digest' = <<>>
    /\ UNCHANGED <<lcg_vars, host_vars, parse_vars>>

\* held.push(r): a record built by hand
Push(r) ==
    /\ gen = <<>>
    /\ Len(held) < MaxRecords
    /\ held' = Append(held, r)
    /\ text' = <<>> /\ parsed' = <<>> /\ digest' = <<>>
    /\ UNCHANGED <<gen, lcg_vars, host_vars, parse_vars>>

\* text = serialize_to_json(&held)
Serialize ==
    /\ text' = <<serialize_to_json(held)>>
    /\ parsed' = <<>>
    /\ UNCHANGED <<held, gen, digest, lcg_vars, host_vars, parse_vars>>

\* parsed = parse_json_string(&text)
Parse ==
    /\ text # <<>>
    /\ parsed' = <<parse_json_string(text[1])>>
    /\ UNCHANGED <<held, gen, text, digest, lcg_vars, host_vars, parse_vars>>

\* digest = fnv1a_hash_records(&held)
Hash ==
    /\ digest' = <<fnv1a_hash_records(held)>>
    /\ UNCHANGED <<held, gen, text, parsed, lcg_vars, host_vars, parse_vars>>

NextLib ==
    \/ \E count \in 0..MaxCount, s \in Seeds : Generate(count, s)
    \/ \E r \in RecordPool : Push(r)
    \/ Serialize
    \/ Parse
    \/ Hash

SpecLib == InitLib /\ [][NextLib]_vars

(***************************************************************************)
(* Spec: the host driving the exports init, alloc and run_task             *)
(***************************************************************************)
Init == InitAll /\ rng = U32(0) /\ input = <<>>

\* init(_seed): a no-op
init(s) ==
    /\ call' = "init"
    /\ UNCHANGED <<pbuf, last_run, lib_vars, lcg_vars, parse_vars>>

\* ptr = alloc(n_bytes): the host keeps the pointer it got last
Alloc(n_bytes, sys_ok) ==
    /\ pbuf' = alloc(n_bytes, sys_ok)
    /\ call' = "alloc"
    /\ UNCHANGED <<last_run, lib_vars, lcg_vars, parse_vars>>

\* The host stores record_count and seed into its parameter buffer.
HostWrite(count, s) ==
    /\ pbuf # <<>>
    /\ Len(pbuf[1]) >= 8
    /\ pbuf' = <<U32(count) \o s \o SubSeq(pbuf[1], 9, Len(pbuf[1]))>>
    /\ call' = "write"
    /\ UNCHANGED <<last_run, lib_vars, lcg_vars, parse_vars>>

\* run_task(ptr) on a buffer that holds the two parameter words
RunTask ==
    /\ pbuf # <<>>
    /\ Len(pbuf[1]) >= 8
    /\ LET r  == run_task(SubSeq(pbuf[1], 1, 8))
           cs == [count |-> SubSeq(pbuf[1], 1, 4), seed |-> SubSeq(pbuf[1], 5, 8)]
       IN  /\ pbuf' = <<r.params \o SubSeq(pbuf[1], 9, Len(pbuf[1]))>>
           /\ last_run' = <<[count  |-> cs.count,
                             seed   |-> cs.seed,
                             ret    |-> r.ret,
                             repeat |-> /\ last_run # <<>>
                                        /\ last_run[1].count = cs.count
                                        /\ last_run[1].seed = cs.seed,
                             same   |-> /\ last_run # <<>>
                                        /\ last_run[1].ret = r.ret]>>
    /\ call' = "run_task"
    /\ UNCHANGED <<lib_vars, lcg_vars, parse_vars>>

Next ==
    \/ \E s \in HostSeeds : init(s)
    \/ \E n \in AllocSizes, ok \in BOOLEAN : Alloc(n, ok)
    \/ \E count \in 0..MaxParamCount, s \in HostSeeds : HostWrite(count, s)
    \/ RunTask

Spec == Init /\ [][Next]_vars

(***************************************************************************)
(* SpecParse: a caller of the parser on arbitrary bytes                    *)
(***************************************************************************)
\* a well-formed document:
\*   [{"id":1,"value":-2,"flag":true,"name":"a1"}]
DocRecord ==
    <<91, 123, 34, 105, 100, 34, 58, 49, 44, 34, 118, 97, 108, 117, 101,
      34, 58, 45, 50, 44, 34, 102, 108, 97, 103, 34, 58, 116, 114, 117,
      101, 44, 34, 110, 97, 109, 101, 34, 58, 34, 97, 49, 34, 125, 93>>

\* whitespace, escapes, a trailing comma:
\*    [ {"name" : "q\"\\\n" ,\x09"flag":false,\x0d\x0a"id" : 7 , "value" : -2147483648 } , ]
DocSpaced ==
    <<32, 91, 32, 123, 34, 110, 97, 109, 101, 34, 32, 58, 32, 34, 113, 92,
      34, 92, 92, 92, 110, 34, 32, 44, 9, 34, 102, 108, 97, 103, 34, 58,
      102, 97, 108, 115, 101, 44, 13, 10, 34, 105, 100, 34, 32, 58, 32, 55,
      32, 44, 32, 34, 118, 97, 108, 117, 101, 34, 32, 58, 32, 45, 50, 49,
      52, 55, 52, 56, 51, 54, 52, 56, 32, 125, 32, 44, 32, 93>>

\* numbers at and beyond the i64 and i32 limits:
\*   -9223372036854775808 9223372036854775807 2147483648 00012 -
DocNumbers ==
    <<45, 57, 50, 50, 51, 51, 55, 50, 48, 51, 54, 56, 53, 52, 55, 55, 53,
      56, 48, 56, 32, 57, 50, 50, 51, 51, 55, 50, 48, 51, 54, 56, 53, 52,
      55, 55, 53, 56, 48, 55, 32, 50, 49, 52, 55, 52, 56, 51, 54, 52, 56,
      32, 48, 48, 48, 49, 50, 32, 45>>

\* strings: bytes that are not UTF-8, escapes, an incomplete escape:
\*   "\xc3\xa9\xff" "a\tb\q" "\r\xc3\xa9" "x\
DocStrings ==
    <<34, 195, 169, 255, 34, 32, 34, 97, 92, 116, 98, 92, 113, 34, 32, 34,
      92, 114, 195, 169, 34, 32, 34, 120, 92>>

\* boolean literals and near misses:
\*   truefalse trux fals
DocBooleans ==
    <<116, 114, 117, 101, 102, 97, 108, 115, 101, 32, 116, 114, 117, 120,
      32, 102, 97, 108, 115>>

\* a repeated key, an empty object, an unknown key:
\*   [{"id":1,"id":2,"value":3,"flag":false,"name":""},{},{"x":1}]
DocObjects ==
    <<91, 123, 34, 105, 100, 34, 58, 49, 44, 34, 105, 100, 34, 58, 50, 44,
      34, 118, 97, 108, 117, 101, 34, 58, 51, 44, 34, 102, 108, 97, 103,
      34, 58, 102, 97, 108, 115, 101, 44, 34, 110, 97, 109, 101, 34, 58,
      34, 34, 125, 44, 123, 125, 44, 123, 34, 120, 34, 58, 49, 125, 93>>

\* Numerals at the edges of the i32 range and longer than an i64 can hold:
\* 2147483647 -2147483649 10000000000000000000 0000000000000000000000042 -0
\* 99999999999999999999
DocRange ==
    <<50, 49, 52, 55, 52, 56, 51, 54, 52, 55, 32, 45, 50, 49, 52, 55, 52,
      56, 51, 54, 52, 57, 32, 49, 48, 48, 48, 48, 48, 48, 48, 48, 48, 48,
      48, 48, 48, 48, 48, 48, 48, 48, 48, 32, 48, 48, 48, 48, 48, 48, 48,
      48, 48, 48, 48, 48, 48, 48, 48, 48, 48, 48, 48, 48, 48, 48, 48, 52,
      50, 32, 45, 48, 32, 57, 57, 57, 57, 57, 57, 57, 57, 57, 57, 57, 57,
      57, 57, 57, 57, 57, 57, 57, 57>>

\* Strings with escapes, supported and not:
\* "\u0041" "\/" "\b" "\f" "\"\\\n\r\t" "\x41" "\xc3\xa9\0" "a\"b\\" "\\u"
\* (\xc3\xa9 stands for the two bytes C3 A9)
DocEscapes ==
    <<34, 92, 117, 48, 48, 52, 49, 34, 32, 34, 92, 47, 34, 32, 34, 92, 98,
      34, 32, 34, 92, 102, 34, 32, 34, 92, 34, 92, 92, 92, 110, 92, 114, 92,
      116, 34, 32, 34, 92, 120, 52, 49, 34, 32, 34, 195, 169, 92, 48, 34,
      32, 34, 97, 92, 34, 98, 92, 92, 34, 32, 34, 92, 92, 117, 34>>

\* invalid
DocInvalid ==
    <<105, 110, 118, 97, 108, 105, 100>>

\* " \t\r\n{"id":1}]": an object where the array should open
DocBare ==
    <<32, 9, 13, 10, 123, 34, 105, 100, 34, 58, 49, 125, 93>>

Documents ==
    {DocRecord, DocSpaced, DocNumbers, DocStrings, DocBooleans, DocObjects, DocRange,
     DocEscapes, DocInvalid, DocBare}

InitParse == InitAll /\ rng = U32(0) /\ input \in Documents

\* The caller takes a shorter slice: the input without its last byte.
Truncate ==
    /\ input # <<>>
    /\ input' = SubSeq(input, 1, Len(input) - 1)
    /\ outcome' = <<>>
    /\ UNCHANGED <<lib_vars, lcg_vars, host_vars>>

\* parse_json_string(json): json is a &str, so its bytes are UTF-8.
ParseDocument ==
    /\ outcome = <<>>
    /\ is_utf8(input) = TRUE
    /\ outcome' = <<[fn |-> "parse_json_string", start |-> 0,
                     r |-> parse_json_string(input)]>>
    /\ UNCHANGED <<input, lib_vars, lcg_vars, host_vars>>

\* parse_json_string_value(bytes, &mut pos) with pos = start
ParseStringValue(start) ==
    /\ outcome = <<>>
    /\ outcome' = <<[fn |-> "parse_json_string_value", start |-> start,
                     r |-> parse_json_string_value(input, start)]>>
    /\ UNCHANGED <<input, lib_vars, lcg_vars, host_vars>>

\* parse_json_number(bytes, &mut pos) with pos = start
ParseNumber(start) ==
    /\ outcome = <<>>
    /\ outcome' = <<[fn |-> "parse_json_number", start |-> start,
                     r |-> parse_json_number(input, start)]>>
    /\ UNCHANGED <<input, lib_vars, lcg_vars, host_vars>>

\* parse_json_boolean(bytes, &mut pos) with pos = start
ParseBoolean(start) ==
    /\ outcome = <<>>
    /\ outcome' = <<[fn |-> "parse_json_boolean", start |-> start,
                     r |-> parse_json_boolean(input, start)]>>
    /\ UNCHANGED <<input, lib_vars, lcg_vars, host_vars>>

NextParse ==
    \/ Truncate
    \/ ParseDocument
    \/ \E start \in 0..Len(input) : ParseStringValue(start)
    \/ \E start \in 0..Len(input) : ParseNumber(start)
    \/ \E start \in 0..Len(input) : ParseBoolean(start)

SpecParse == InitParse /\ [][NextParse]_vars

(***************************************************************************)
(* SpecText: a caller that assembles a JSON text and parses it              *)
(***************************************************************************)
MaxMembers == 4
MaxObjects == 2
MaxHead == 2          \* bytes of an allocated block that the model keeps
MaxDimension == 3     \* dimension of the matrices a caller multiplies
MaxRepeats == 2

\* The four keys of a record, in the order parse_json_object validates them.
FieldKeys ==
    <<Lit(<<"i", "d">>), Lit(<<"v", "a", "l", "u", "e">>),
      Lit(<<"f", "l", "a", "g">>), Lit(<<"n", "a", "m", "e">>)>>

\* Member lists of at most MaxMembers members, each one of the four keys.
KeySeqs == UNION {[1..n -> {FieldKeys[i] : i \in 1..4}] : n \in 0..MaxMembers}

\* A member with a well-formed value of the key's type:
\* "id":7  "value":-3  "flag":true  "name":"n"
MemberText(key) ==
    CASE key = FieldKeys[1] -> <<34, 105, 100, 34, 58, 55>>
      [] key = FieldKeys[2] -> <<34, 118, 97, 108, 117, 101, 34, 58, 45, 51>>
      [] key = FieldKeys[3] -> <<34, 102, 108, 97, 103, 34, 58, 116, 114, 117, 101>>
      [] key = FieldKeys[4] -> <<34, 110, 97, 109, 101, 34, 58, 34, 110, 34>>

RECURSIVE MembersText(_)
\* The members separated by commas.
MembersText(keys) ==
    IF keys = <<>> THEN <<>>
    ELSE IF Len(keys) = 1 THEN MemberText(keys[1])
    ELSE MemberText(keys[1]) \o <<44>> \o MembersText(Tail(keys))

\* The object {"id":<i>,"value":-2,"flag":true,"name":"a1"} for a digit i,
\* and the record it stands for.
ObjectText(i) ==
    <<123, 34, 105, 100, 34, 58>> \o <<48 + i>>
    \o <<44, 34, 118, 97, 108, 117, 101, 34, 58, 45, 50, 44, 34, 102, 108, 97, 103, 34, 58, 116, 114, 117, 101, 44, 34, 110, 97, 109, 101, 34, 58, 34, 97, 49, 34, 125>>

ObjectRecord(i) ==
    [id |-> U32(i), value |-> <<254, 255, 255, 255>>, flag |-> TRUE, name |-> <<97, 49>>]

RECURSIVE ArrayItems(_)
\* The first n objects separated by commas.
ArrayItems(n) ==
    IF n = 0 THEN <<>>
    ELSE IF n = 1 THEN ObjectText(1)
    ELSE ArrayItems(n - 1) \o <<44>> \o ObjectText(n)

\* What may follow the members of an object: }]  " }\n]"  }  nothing  ]  ,
Closings ==
    {<<125, 93>>, <<32, 125, 10, 93>>, <<125>>, <<>>, <<93>>, <<44>>}

\* Keys outside the closed set, as written between the quotes and as decoded:
\* Id  (empty)  ids  NAME  na\tme  "flag "
UnknownKeys ==
    {[raw |-> <<73, 100>>, decoded |-> <<73, 100>>],
     [raw |-> <<>>, decoded |-> <<>>],
     [raw |-> <<105, 100, 115>>, decoded |-> <<105, 100, 115>>],
     [raw |-> <<78, 65, 77, 69>>, decoded |-> <<78, 65, 77, 69>>],
     [raw |-> <<110, 97, 92, 116, 109, 101>>, decoded |-> <<110, 97, 9, 109, 101>>],
     [raw |-> <<102, 108, 97, 103, 32>>, decoded |-> <<102, 108, 97, 103, 32>>]}

\* What may follow the ':' of a member: 1}]  @  nothing  " \"x\""  }  ,
Rests ==
    {<<49, 125, 93>>, <<64>>, <<>>, <<32, 34, 120, 34>>, <<125>>, <<44>>}

\* What may follow the last object of an array:
\* ]  ,]  " , ]"  ",\t\r\n]"  ,,]  ", ,]"
Tails ==
    {<<93>>, <<44, 93>>, <<32, 44, 32, 93>>, <<44, 9, 13, 10, 93>>, <<44, 44, 93>>, <<44, 32, 44, 93>>}

\* [{"id":1,"value":2,"flag":false,"name":"[{:,}] "},
\*  {"name":"","flag":true,"value":0,"id":0}]   (one line)
DocPunctuated ==
    <<91, 123, 34, 105, 100, 34, 58, 49, 44, 34, 118, 97, 108, 117, 101, 34,
      58, 50, 44, 34, 102, 108, 97, 103, 34, 58, 102, 97, 108, 115, 101, 44,
      34, 110, 97, 109, 101, 34, 58, 34, 91, 123, 58, 44, 125, 93, 32, 34,
      125, 44, 123, 34, 110, 97, 109, 101, 34, 58, 34, 34, 44, 34, 102, 108,
      97, 103, 34, 58, 116, 114, 117, 101, 44, 34, 118, 97, 108, 117, 101,
      34, 58, 48, 44, 34, 105, 100, 34, 58, 48, 125, 93>>

\* []
DocEmptyArray == <<91, 93>>

\* Accepted texts.
SpacedBases == {DocRecord, DocSpaced, DocPunctuated, DocEmptyArray}

\* Runs of whitespace bytes.
Runs == {<<32>>, <<9>>, <<10>>, <<13>>, <<32, 9, 13, 10>>}

\* The number of consecutive backslashes that end just before position i,
\* counted from position `from` on.
BackslashRun(t, from, i) ==
    i - 1 - (CHOOSE j \in (from - 1)..(i - 1) :
                /\ j = from - 1 \/ t[j] # 92
                /\ \A k \in (j + 1)..(i - 1) : t[k] = 92)

\* The byte at 1-indexed position i of t is a structural token: one of
\* [ ] { } : , outside the string literals (an even number of unescaped
\* quotes precedes it).
IsStructural(t, i) ==
    /\ t[i] \in {91, 93, 123, 125, 58, 44}
    /\ Cardinality({j \in 1..(i - 1) :
                       t[j] = 34 /\ BackslashRun(t, 1, j) % 2 = 0}) % 2 = 0

\* An insertion after the first k bytes of t is before the text, or after or
\* before a structural token.
NextToToken(t, k) ==
    IF k = 0 THEN TRUE
    ELSE IF IsStructural(t, k) THEN TRUE
    ELSE IF k < Len(t) THEN IsStructural(t, k + 1)
    ELSE FALSE

InitText == InitAll /\ rng = U32(0) /\ input = <<>>

\* The call parse_json_string(json) on an assembled text; `shape` records how
\* the caller assembled it.
ParseText(json, shape) ==
    /\ outcome = <<>>
    /\ input' = json
    /\ outcome' = <<[fn |-> "parse_json_string", start |-> 0,
                     r |-> parse_json_string(json), shape |-> shape]>>
    /\ UNCHANGED <<lib_vars, lcg_vars, host_vars>>

\* An array of `before` well-formed objects and then an object with the
\* members `keys`, followed by `close`.
ParseRecordText(before, keys, close) ==
    ParseText(<<91>> \o (IF before = 0 THEN <<>> ELSE ArrayItems(before) \o <<44>>)
                   \o <<123>> \o MembersText(keys) \o close,
              [kind |-> "record", before |-> before, keys |-> keys, close |-> close])

\* An object whose last member has a key outside the closed set, with `rest`
\* after the ':'.
ParseUnknownKey(keys, key, rest) ==
    ParseText(<<91, 123>> \o (IF keys = <<>> THEN <<>> ELSE MembersText(keys) \o <<44>>)
                   \o <<34>> \o key.raw \o <<34, 58>> \o rest,
              [kind |-> "unknown", keys |-> keys, key |-> key, rest |-> rest])

\* An array of n well-formed objects followed by `tail`.
ParseArrayText(n, tail) ==
    ParseText(<<91>> \o ArrayItems(n) \o tail,
              [kind |-> "array", n |-> n, tail |-> tail])

\* An accepted text with the whitespace `run` inserted after its first k
\* bytes, next to a structural token or before the text.
ParseSpacedText(base, k, run) ==
    /\ NextToToken(base, k) = TRUE
    /\ ParseText(SubSeq(base, 1, k) \o run \o SubSeq(base, k + 1, Len(base)),
                 [kind |-> "spaced", base |-> base, k |-> k, run |-> run])

\* The first k bytes of the serialization of the records rs.
ParsePrefixText(rs, k) ==
    ParseText(SubSeq(serialize_to_json(rs), 1, k),
              [kind |-> "prefix", records |-> rs, k |-> k,
               whole |-> Len(serialize_to_json(rs))])

\* An accepted text followed by further bytes.
ParseSuffixText(base, suffix) ==
    ParseText(base \o suffix, [kind |-> "suffix", base |-> base, suffix |-> suffix])

\* A record whose id is written as the decimal numeral of the word w, as
\* write_u32_optimized writes it, after a '-' when neg:
\* [{"id":<literal>,"value":-3,"flag":true,"name":"n"}]
ParseIdText(neg, w) ==
    ParseText(<<91, 123, 34, 105, 100, 34, 58>>
                  \o write_u32_optimized(IF neg THEN <<45>> ELSE <<>>, w)
                  \o <<44>> \o MembersText(Tail(FieldKeys)) \o <<125, 93>>,
              [kind |-> "id", neg |-> neg, w |-> w])

\* An object in which every key occurs and some occur again, the value of the
\* i-th member written from i: "id":<i>, "value":-<i>, "flag":true for odd i
\* and false for even i, "name":"n<i>".
ParseRepeatedText(keys) ==
    LET member(i) ==
            CASE keys[i] = FieldKeys[1] -> <<34, 105, 100, 34, 58, 48 + i>>
              [] keys[i] = FieldKeys[2] ->
                   <<34, 118, 97, 108, 117, 101, 34, 58, 45, 48 + i>>
              [] keys[i] = FieldKeys[3] ->
                   <<34, 102, 108, 97, 103, 34, 58>>
                   \o (IF i % 2 = 1 THEN <<116, 114, 117, 101>>
                       ELSE <<102, 97, 108, 115, 101>>)
              [] keys[i] = FieldKeys[4] ->
                   <<34, 110, 97, 109, 101, 34, 58, 34, 110, 48 + i, 34>>
        members[i \in 0..Len(keys)] ==
            IF i = 0 THEN <<>>
            ELSE members[i - 1] \o (IF i = 1 THEN <<>> ELSE <<44>>) \o member(i)
    IN  ParseText(<<91, 123>> \o members[Len(keys)] \o <<125, 93>>,
                  [kind |-> "repeated", keys |-> keys])

\* The caller drops the text and the result.
DropText ==
    /\ outcome # <<>>
    /\ input' = <<>>
    /\ outcome' = <<>>
    /\ UNCHANGED <<lib_vars, lcg_vars, host_vars>>

NextText ==
    \/ outcome = <<>> /\ \E keys \in KeySeqs, close \in Closings :
          ParseRecordText(0, keys, close)
    \/ outcome = <<>> /\ \E before \in 1..(MaxObjects - 1), close \in Closings :
          \E keys \in {ks \in KeySeqs : Len(ks) <= 1} :
              ParseRecordText(before, keys, close)
    \/ outcome = <<>> /\ \E key \in UnknownKeys, rest \in Rests :
          \E keys \in {ks \in KeySeqs : Len(ks) <= 1} :
              ParseUnknownKey(keys, key, rest)
    \/ outcome = <<>> /\ \E n \in 0..MaxObjects, tail \in Tails :
          ParseArrayText(n, tail)
    \/ outcome = <<>> /\ \E base \in SpacedBases : \E k \in 0..Len(base), run \in Runs :
          ParseSpacedText(base, k, run)
    \/ outcome = <<>>
       /\ \E rs \in {<<r>> : r \in RecordPool}
                    \cup {generate_json_records(n, s) : n \in 0..MaxRecords, s \in HostSeeds} :
             \E k \in 0..(Len(serialize_to_json(rs)) - 1) : ParsePrefixText(rs, k)
    \/ outcome = <<>>
       /\ \E base \in SpacedBases,
             suffix \in {<<93>>, <<44>>, <<91>>, <<120>>, <<125>>, <<32>>, <<34>>, <<92>>,
                         <<44, 123>>, <<91, 93>>, <<195, 169>>, <<93, 93, 10>>} :
             ParseSuffixText(base, suffix)
    \/ outcome = <<>>
       /\ \E neg \in BOOLEAN,
             w \in {U32(0), U32(1), U32(7), U32(65536), I32_MAX, I32_MIN, MaxWord,
                    wrapping_add(I32_MIN, U32(1)), wrapping_neg(U32(7))} :
             ParseIdText(neg, w)
    \/ outcome = <<>>
       /\ \E n \in 5..(4 + MaxRepeats) :
             \E keys \in {ks \in [1..n -> {FieldKeys[i] : i \in 1..4}] :
                              \A i \in 1..4 : \E j \in 1..n : ks[j] = FieldKeys[i]} :
                ParseRepeatedText(keys)
    \/ DropText

SpecText == InitText /\ [][NextText]_vars

(***************************************************************************)
(* SpecKernel: callers of the matrix and Mandelbrot tasks                  *)
(***************************************************************************)
MAX_MATRIX_DIMENSION == 2000
MAX_ALLOCATION_SIZE == FromDecimal(<<1, 0, 7, 3, 7, 4, 1, 8, 2, 4>>, 4)

\* u32::checked_mul: <<product>> is Some(product), <<>> is None.  The factors
\* are multiplied at 64 bits; the product fits when its upper word is 0.
checked_mul(a, b) ==
    LET wide == wrapping_mul(a \o <<0, 0, 0, 0>>, b \o <<0, 0, 0, 0>>)
    IN  IF IsZero(SubSeq(wide, 5, 8)) THEN <<SubSeq(wide, 1, 4)>> ELSE <<>>

\* Faulty variant: the largest dimension is refused.
matrix_validate_parameters_exclusive(params) ==
    /\ ~IsZero(params.dimension)
    /\ LessThan(params.dimension, U32(MAX_MATRIX_DIMENSION))

\* matrix_mul validation.rs, validate_parameters.
matrix_validate_parameters(params) ==
    IF IsZero(params.dimension) THEN FALSE
    ELSE IF LessThan(U32(MAX_MATRIX_DIMENSION), params.dimension) THEN FALSE
    ELSE LET elements == checked_mul(params.dimension, params.dimension)
         IN  IF elements = <<>> THEN FALSE
             ELSE LET bytes_per_matrix == checked_mul(elements[1], U32(4))
                  IN  IF bytes_per_matrix = <<>> THEN FALSE
                      ELSE LET total_bytes == checked_mul(bytes_per_matrix[1], U32(3))
                           IN  IF total_bytes = <<>> THEN FALSE
                               ELSE IF LessThan(U32(256 * 1024 * 1024), total_bytes[1])
                               THEN FALSE
                               ELSE TRUE

\* The three exports named alloc.  The size is a u32; `block` is what the
\* system allocator returned, <<>> for null and <<head>> for a block, of which
\* the model keeps the first MaxHead bytes.  The system allocator does not
\* initialize the block.  Layout::from_size_align(n, 8) fails on the 32-bit
\* target when n rounded up to a multiple of 8 exceeds isize::MAX.
json_alloc(n_bytes, block) ==
    IF IsZero(n_bytes) THEN <<>>
    ELSE IF LessThan(<<248, 255, 255, 127>>, n_bytes) THEN <<>>
    ELSE IF block = <<>> THEN <<>>
    ELSE <<[i \in DOMAIN block[1] |-> 0]>>

mandelbrot_alloc(n_bytes, block) ==
    IF IsZero(n_bytes) THEN <<>>
    ELSE IF LessThan(FromDecimal(<<1, 0, 7, 3, 7, 4, 1, 8, 2, 4>>, 4), n_bytes) THEN <<>>
    ELSE IF LessThan(<<248, 255, 255, 127>>, n_bytes) THEN <<>>
    ELSE IF block = <<>> THEN <<>>
    ELSE block

matrix_alloc(n_bytes, block) ==
    IF IsZero(n_bytes) THEN <<>>
    ELSE IF LessThan(MAX_ALLOCATION_SIZE, n_bytes) THEN <<>>
    ELSE IF LessThan(<<248, 255, 255, 127>>, n_bytes) THEN <<>>
    ELSE IF block = <<>> THEN <<>>
    ELSE block

\* A host calls the alloc export of one task's module.
CallAlloc(task, n_bytes, block) ==
    /\ input' = <<>>
    /\ outcome' = <<[fn |-> "alloc", task |-> task, n_bytes |-> n_bytes, block |-> block,
                     r |-> CASE task = "json" -> json_alloc(n_bytes, block)
                             [] task = "mandelbrot" -> mandelbrot_alloc(n_bytes, block)
                             [] task = "matrix" -> matrix_alloc(n_bytes, block)]>>
    /\ UNCHANGED <<lib_vars, lcg_vars, host_vars>>

\* An f32 is kept as the expression that computes it, so that no identity of
\* real arithmetic is assumed of the rounded operations: a literal
\* [f32 |-> "lit", v |-> integer], an infinity [f32 |-> "inf", neg |-> sign],
\* a sum [f32 |-> "add", l, r] or a product [f32 |-> "mul", l, r].
\*
\* matrix.rs lines 76-86: the loops in the order i, k, j.  The iteration
\* (i, k) adds a[i][k] * b[k][j] into flat_c[i * n + j] for every j, so row i
\* of flat_c after its k-th sweep is a function of the row after the sweep
\* before; the sweeps of one row touch no other row.
multiply_loop(n, flat_a, flat_b, flat_c) ==
    LET row(i) ==
            LET sweep[k \in 0..n] ==
                    IF k = 0 THEN [j \in 1..n |-> flat_c[i * n + j]]
                    ELSE [j \in 1..n |->
                             [f32 |-> "add", l |-> sweep[k - 1][j],
                              r |-> [f32 |-> "mul", l |-> flat_a[i * n + k],
                                                    r |-> flat_b[(k - 1) * n + j]]]]
            IN  sweep[n]
    IN  [x \in 1..(n * n) |-> row((x - 1) \div n)[((x - 1) % n) + 1]]

\* Faulty variant: the products are added to what c held before the call.
naive_triple_loop_multiply_into(a, b, c) ==
    LET n == Len(a)
        flat(m) == [x \in 1..(n * n) |-> m[((x - 1) \div n) + 1][((x - 1) % n) + 1]]
        flat_c == multiply_loop(n, flat(a), flat(b), flat(c))
    IN  [a |-> a, b |-> b,
         c |-> [i \in 1..n |-> [j \in 1..n |-> flat_c[(i - 1) * n + j]]]]

\* matrix.rs, naive_triple_loop_multiply: the rows are copied into flat
\* matrices, flat_c starts as zeros, and the result is copied back into c.
\* a and b are shared borrows; the record is the three matrices after the call.
naive_triple_loop_multiply(a, b, c) ==
    LET n == Len(a)
        flat(m) == [x \in 1..(n * n) |-> m[((x - 1) \div n) + 1][((x - 1) % n) + 1]]
        flat_c == multiply_loop(n, flat(a), flat(b),
                                [x \in 1..(n * n) |-> [f32 |-> "lit", v |-> 0]])
    IN  [a |-> a, b |-> b,
         c |-> [i \in DOMAIN c |-> [j \in DOMAIN c[i] |->
                   IF i <= n /\ j <= n THEN flat_c[(i - 1) * n + j] ELSE c[i][j]]]]

\* A caller multiplies two n x n matrices into c.
Multiply(a, b, c) ==
    /\ input' = <<>>
    /\ outcome' = <<[fn |-> "naive_triple_loop_multiply", a |-> a, b |-> b, c |-> c,
                     r |-> naive_triple_loop_multiply(a, b, c)]>>
    /\ UNCHANGED <<lib_vars, lcg_vars, host_vars>>

\* generation.rs, lcg_to_float_range: the f32 is kept as the conversion of its
\* word, (min + lcg_value / u32::MAX * (max - min)) as f32.
lcg_to_float_range(lcg_value, min, max) ==
    [f32 |-> "lcg_to_float_range", lcg_value |-> lcg_value, min |-> min, max |-> max]

\* generation.rs, generate_random_matrix: one draw per element, row by row,
\* through the caller's seed.  The record is the matrix and the seed after.
generate_random_matrix(dimension, seed) ==
    LET f32s == [f32 : {"lcg_to_float_range"}, lcg_value : u32, min : {-1}, max : {1}]
        fill[e \in 0..(dimension * dimension), s \in u32, data \in Seq(f32s)] ==
            IF e = dimension * dimension THEN [seed |-> s, data |-> data]
            ELSE LET g == matrix_linear_congruential_generator(s)
                 IN  fill[e + 1, g.seed,
                          Append(data, lcg_to_float_range(g.ret, -1, 1))]
        done == fill[0, seed, <<>>]
    IN  [seed |-> done.seed,
         matrix |-> [i \in 1..dimension |-> [j \in 1..dimension |->
                        done.data[(i - 1) * dimension + j]]]]

\* Faulty variant: B is generated from the seed in the parameters again.
matrix_run_task_reseeded(params_ptr) ==
    IF params_ptr = <<>> THEN [returned |-> "0", params |-> params_ptr]
    ELSE IF ~matrix_validate_parameters(params_ptr[1])
    THEN [returned |-> "0", params |-> params_ptr]
    ELSE LET n == ToNat(params_ptr[1].dimension)
             ga == generate_random_matrix(n, params_ptr[1].seed)
             gb == generate_random_matrix(n, params_ptr[1].seed)
             product == naive_triple_loop_multiply(
                            ga.matrix, gb.matrix,
                            [i \in 1..n |-> [j \in 1..n |-> [f32 |-> "lit", v |-> 0]]])
         IN  [returned |-> "fnv1a_hash_matrix", params |-> params_ptr,
              matrix_a |-> product.a, matrix_b |-> product.b, matrix_c |-> product.c]

\* matrix_mul lib.rs, run_task.  params_ptr is <<>> for a null pointer and
\* <<params>> for a pointer to the caller's parameters; the record holds what
\* is returned, the caller's buffer after the call and, when the task ran, the
\* matrices it built.  The u32 returned for accepted parameters is
\* fnv1a_hash_matrix(&matrix_c), kept as that expression.
matrix_run_task(params_ptr) ==
    IF params_ptr = <<>> THEN [returned |-> "0", params |-> params_ptr]
    ELSE IF ~matrix_validate_parameters(params_ptr[1])
    THEN [returned |-> "0", params |-> params_ptr]
    ELSE LET n == ToNat(params_ptr[1].dimension)
             ga == generate_random_matrix(n, params_ptr[1].seed)
             gb == generate_random_matrix(n, ga.seed)
             product == naive_triple_loop_multiply(
                            ga.matrix, gb.matrix,
                            [i \in 1..n |-> [j \in 1..n |-> [f32 |-> "lit", v |-> 0]]])
         IN  [returned |-> "fnv1a_hash_matrix", params |-> params_ptr,
              matrix_a |-> product.a, matrix_b |-> product.b, matrix_c |-> product.c]

\* A host calls the matrix task's run_task.
RunMatrix(params_ptr) ==
    /\ input' = <<>>
    /\ outcome' = <<[fn |-> "run_task", task |-> "matrix", params_ptr |-> params_ptr,
                     r |-> matrix_run_task(params_ptr)]>>
    /\ UNCHANGED <<lib_vars, lcg_vars, host_vars>>

\* An f64 parameter is [class |-> "finite", v |-> integer value],
\* [class |-> "inf", v |-> sign] or [class |-> "nan", v |-> 0].
\*
\* Faulty variant: the sign of scale_factor is not tested.
mandelbrot_validate_parameters_any_scale(params) ==
    IF IsZero(params.width) \/ IsZero(params.height)
       \/ LessThan(U32(10000), params.width) \/ LessThan(U32(10000), params.height)
    THEN FALSE
    ELSE IF params.center_real.class # "finite" \/ params.center_imag.class # "finite"
            \/ params.scale_factor.class # "finite"
    THEN FALSE
    ELSE TRUE

\* mandelbrot lib.rs, validate_parameters.
mandelbrot_validate_parameters(params) ==
    IF IsZero(params.width) \/ IsZero(params.height)
       \/ LessThan(U32(10000), params.width) \/ LessThan(U32(10000), params.height)
    THEN FALSE
    ELSE IF params.center_real.class # "finite" \/ params.center_imag.class # "finite"
            \/ params.scale_factor.class # "finite"
    THEN FALSE
    ELSE IF params.scale_factor.v <= 0
    THEN FALSE
    ELSE TRUE

\* mandelbrot lib.rs, run_task, with params_ptr as in matrix_run_task.  The
\* u32 returned for accepted parameters is fnv1a_hash_u32(&iteration_counts),
\* kept as that expression with the number of pixels iterated.
mandelbrot_run_task(params_ptr) ==
    IF params_ptr = <<>> THEN [returned |-> "0", params |-> params_ptr]
    ELSE IF ~mandelbrot_validate_parameters(params_ptr[1])
    THEN [returned |-> "0", params |-> params_ptr]
    ELSE LET count == checked_mul(params_ptr[1].width, params_ptr[1].height)
         IN  IF count = <<>> \/ LessThan(FromDecimal(<<1, 0, 0, 0, 0, 0, 0, 0, 0>>, 4), count[1])
             THEN [returned |-> "0", params |-> params_ptr]
             ELSE [returned |-> "fnv1a_hash_u32", params |-> params_ptr,
                   total_pixels |-> count[1]]

\* A host calls the Mandelbrot task's run_task.
RunMandelbrot(params_ptr) ==
    /\ input' = <<>>
    /\ outcome' = <<[fn |-> "run_task", task |-> "mandelbrot", params_ptr |-> params_ptr,
                     r |-> mandelbrot_run_task(params_ptr)]>>
    /\ UNCHANGED <<lib_vars, lcg_vars, host_vars>>

\* A caller validates the parameters it built.
ValidateMatrix(dimension, seed) ==
    /\ input' = <<>>
    /\ outcome' = <<[fn |-> "validate_parameters",
                     params |-> [dimension |-> dimension, seed |-> seed],
                     r |-> matrix_validate_parameters([dimension |-> dimension,
                                                       seed |-> seed])]>>
    /\ UNCHANGED <<lib_vars, lcg_vars, host_vars>>

NextKernel ==
    \/ outcome = <<>>
       /\ \E dimension \in {U32(d) : d \in 0..(MAX_MATRIX_DIMENSION + 1)}
                           \cup {U32(4729), U32(4730), U32(18919), U32(32768), U32(65535),
                                 U32(65536), I32_MAX, I32_MIN, MaxWord},
             seed \in {U32(0), MaxWord} :
             ValidateMatrix(dimension, seed)
    \/ outcome = <<>>
       /\ \E task \in {"json", "mandelbrot", "matrix"},
             n_bytes \in {U32(0), U32(1), U32(4), U32(8), U32(24), MAX_ALLOCATION_SIZE,
                          wrapping_add(MAX_ALLOCATION_SIZE, U32(1)), I32_MAX, I32_MIN,
                          <<248, 255, 255, 127>>, MaxWord} :
             \E block \in {<<>>} \cup {<<head>> : head \in
                               [1..(IF n_bytes = U32(1) THEN 1 ELSE MaxHead) -> {0, 1, 255}]} :
                CallAlloc(task, n_bytes, block)
    \/ outcome = <<>>
       /\ \E params_ptr \in
                {<<>>} \cup {<<[dimension |-> dimension, seed |-> seed]>> :
                                dimension \in {U32(d) : d \in 0..MaxDimension}
                                              \cup {U32(MAX_MATRIX_DIMENSION + 1), MaxWord},
                                seed \in HostSeeds \cup {MaxWord}} :
             RunMatrix(params_ptr)
    \/ outcome = <<>>
       /\ \E params_ptr \in
                {<<>>} \cup
                {<<[width |-> width, height |-> height, max_iter |-> max_iter,
                    center_real |-> center_real, center_imag |-> center_imag,
                    scale_factor |-> scale_factor]>> :
                    width \in {U32(0), U32(1), U32(10000), U32(10001), MaxWord},
                    height \in {U32(0), U32(1), U32(10000), U32(10001)},
                    max_iter \in {U32(0), MaxWord},
                    center_real \in {[class |-> "finite", v |-> 0], [class |-> "nan", v |-> 0],
                                     [class |-> "inf", v |-> 1]},
                    center_imag \in {[class |-> "finite", v |-> -1], [class |-> "nan", v |-> 0],
                                     [class |-> "inf", v |-> -1]},
                    scale_factor \in {[class |-> "finite", v |-> 3], [class |-> "finite", v |-> 0],
                                      [class |-> "finite", v |-> -1], [class |-> "nan", v |-> 0],
                                      [class |-> "inf", v |-> 1], [class |-> "inf", v |-> -1]}} :
             RunMandelbrot(params_ptr)
    \/ outcome = <<>>
       /\ \E n \in 1..MaxDimension :
             \E row \in 0..n, col \in 1..n, rest \in {1, -1},
                large \in {[f32 |-> "lit", v |-> 16777216], [f32 |-> "inf", neg |-> FALSE]},
                kind \in {"identity", "zero", "ones", "rows", "upper"}, old \in {0, 7} :
                Multiply([i \in 1..n |-> [j \in 1..n |->
                             IF i = row /\ j = col THEN large
                             ELSE [f32 |-> "lit", v |-> rest]]],
                         [i \in 1..n |-> [j \in 1..n |->
                             [f32 |-> "lit",
                              v |-> CASE kind = "identity" -> IF i = j THEN 1 ELSE 0
                                      [] kind = "zero" -> 0
                                      [] kind = "ones" -> 1
                                      [] kind = "rows" -> i
                                      [] kind = "upper" -> IF i <= j THEN 1 ELSE 0]]],
                         [i \in 1..n |-> [j \in 1..n |-> [f32 |-> "lit", v |-> old]]])
    \/ DropText

SpecKernel == InitText /\ [][NextKernel]_vars

(***************************************************************************)
(* Reference arithmetic for the properties.  It is kept apart from the     *)
(* limb arithmetic of the model: a 32-bit word is read as two 16-bit       *)
(* halves, so every intermediate value fits TLC's integers.                *)
(***************************************************************************)
Half(w) == [lo |-> w[1] + 256 * w[2], hi |-> w[3] + 256 * w[4]]
Word(x) == <<x.lo % 256, x.lo \div 256, x.hi % 256, x.hi \div 256>>
Halves == [lo : 0..65535, hi : 0..65535]

\* (x * m + c) mod 2^32 for m, c < 2^31 with (m mod 2^16) < 2^15.
AffineMod32(x, m, c) ==
    LET low == x.lo * (m % 65536) + (c % 65536)
    IN  [lo |-> low % 65536,
         hi |-> (x.lo * (m \div 65536) + x.hi * (m % 65536) + (low \div 65536)
                 + (c \div 65536)) % 65536]

\* The generator's recurrence on words.
RefLcg(w) == Word(AffineMod32(Half(w), 1664525, 1013904223))

\* The first n outputs of the generator started at `seed`.
RefDraws(seed, n) ==
    LET pass[k \in 0..n, w \in u32, out \in Seq(u32)] ==
            IF k = n THEN out
            ELSE pass[k + 1, RefLcg(w), Append(out, RefLcg(w))]
    IN  pass[0, seed, <<>>]

\* x XOR y for two bytes, bit by bit.
RefXor8(x, y) ==
    LET bit(v, k) == (v \div (2 ^ k)) % 2
        sum[k \in 0..8] ==
            IF k = 8 THEN 0
            ELSE ((bit(x, k) + bit(y, k)) % 2) * (2 ^ k) + sum[k + 1]
    IN  sum[0]

\* acc = ((acc XOR byte) * 16777619) mod 2^32
RefFnvStep(acc, byte) ==
    AffineMod32([lo |-> (acc.lo \div 256) * 256 + RefXor8(acc.lo % 256, byte),
                 hi |-> acc.hi],
                16777619, 0)

\* The bytes a record contributes to the hash, in order.
RecordBytes(r) == r.id \o r.value \o <<IF r.flag THEN 1 ELSE 0>> \o r.name

RECURSIVE StreamBytes(_)
StreamBytes(rs) ==
    IF rs = <<>> THEN <<>> ELSE RecordBytes(Head(rs)) \o StreamBytes(Tail(rs))

\* 2166136261 = 33052 * 2^16 + 40389
RefBasis == [lo |-> 40389, hi |-> 33052]

RefFnv(rs) ==
    LET bytes == StreamBytes(rs)
        fold[k \in 1..(Len(bytes) + 1), acc \in Halves] ==
            IF k > Len(bytes) THEN acc
            ELSE fold[k + 1, RefFnvStep(acc, bytes[k])]
    IN  Word(fold[1, RefBasis])

RECURSIVE Horner(_)
\* The value of a string of ASCII digits, as three 16-bit halves.
Horner(ds) ==
    IF ds = <<>> THEN <<0, 0, 0>>
    ELSE LET h  == Horner(SubSeq(ds, 1, Len(ds) - 1))
             a0 == h[1] * 10 + (ds[Len(ds)] - 48)
             a1 == h[2] * 10 + (a0 \div 65536)
             a2 == h[3] * 10 + (a1 \div 65536)
         IN  <<a0 % 65536, a1 % 65536, a2 % 65536>>

\* ds is the plain decimal numeral of the natural number x (two halves).
IsNumeralOf(ds, x) ==
    /\ Len(ds) \in 1..10
    /\ \A k \in DOMAIN ds : ds[k] \in 48..57
    /\ Len(ds) > 1 => ds[1] # 48
    /\ Horner(ds) = <<x.lo, x.hi, 0>>

\* 2^32 - x for a word x >= 2^31: the magnitude of a negative i32.
Magnitude(x) ==
    [lo |-> (65536 - x.lo) % 65536,
     hi |-> IF x.lo = 0 THEN 65536 - x.hi ELSE 65535 - x.hi]

\* ds is the decimal numeral of the i32 v: '-' and the magnitude when v < 0.
IsSignedNumeralOf(ds, v) ==
    IF v[4] >= 128
    THEN Len(ds) >= 2 /\ ds[1] = 45 /\ IsNumeralOf(Tail(ds), Magnitude(Half(v)))
    ELSE IsNumeralOf(ds, Half(v))

\* Matching a text from cursor pos (a count of bytes consumed, -1: no match).
Expect(t, pos, lit) ==
    IF pos >= 0 /\ pos + Len(lit) <= Len(t) /\ SubSeq(t, pos + 1, pos + Len(lit)) = lit
    THEN pos + Len(lit)
    ELSE -1

\* The end of the longest run of bytes of `set` that starts at pos.
RunEnd(t, pos, set) ==
    CHOOSE e \in pos..Len(t) :
        /\ \A k \in (pos + 1)..e : t[k] \in set
        /\ e = Len(t) \/ t[e + 1] \notin set

ExpectId(t, pos, id) ==
    IF pos < 0 THEN -1
    ELSE IF IsNumeralOf(SubSeq(t, pos + 1, RunEnd(t, pos, 48..57)), Half(id))
    THEN RunEnd(t, pos, 48..57)
    ELSE -1

ExpectValue(t, pos, value) ==
    IF pos < 0 THEN -1
    ELSE IF IsSignedNumeralOf(SubSeq(t, pos + 1, RunEnd(t, pos, {45} \cup 48..57)), value)
    THEN RunEnd(t, pos, {45} \cup 48..57)
    ELSE -1

\* {"id":<id>,"value":<value>,"flag":<true|false>,"name":"<name>"}
ExpectRecord(t, pos, r) ==
    Expect(t,
      Expect(t,
        Expect(t,
          Expect(t,
            Expect(t,
              ExpectValue(t,
                Expect(t,
                  ExpectId(t,
                    Expect(t, pos, Lit(<<"{", "\"", "i", "d", "\"", ":">>)),
                    r.id),
                  Lit(<<",", "\"", "v", "a", "l", "u", "e", "\"", ":">>)),
                r.value),
              Lit(<<",", "\"", "f", "l", "a", "g", "\"", ":">>)),
            IF r.flag THEN Lit(<<"t", "r", "u", "e">>)
                      ELSE Lit(<<"f", "a", "l", "s", "e">>)),
          Lit(<<",", "\"", "n", "a", "m", "e", "\"", ":", "\"">>)),
        r.name),
      Lit(<<"\"", "}">>))

\* The wire grammar of serialize_to_json for the records rs.
MatchesWire(t, rs) ==
    IF rs = <<>> THEN t = Lit(<<"[", "]">>)
    ELSE LET pass[k \in 1..(Len(rs) + 1), pos \in -1..Len(t)] ==
                 IF k > Len(rs) THEN pos
                 ELSE pass[k + 1,
                           ExpectRecord(t,
                               IF k = 1 THEN pos ELSE Expect(t, pos, Lit(<<",">>)),
                               rs[k])]
         IN  Expect(t, pass[1, Expect(t, 0, Lit(<<"[">>))], Lit(<<"]">>)) = Len(t)

(***************************************************************************)
(* Properties                                                              *)
(***************************************************************************)
\* Field-wise equality of two record sequences.
SameRecords(a, b) ==
    /\ Len(a) = Len(b)
    /\ \A i \in 1..Len(a) :
          /\ a[i].id = b[i].id
          /\ a[i].value = b[i].value
          /\ a[i].flag = b[i].flag
          /\ a[i].name = b[i].name

\* C1 (SpecLib): round-trip law.  Parsing the serialization of a generated
\* sequence succeeds and yields a sequence of the same length, field-wise
\* equal to the generated one; for count 0 the text is "[]" and the parsed
\* sequence is empty.
C1_RoundTrip ==
    (gen # <<>> /\ text # <<>> /\ parsed # <<>>) =>
        /\ parsed[1].tag = "Ok"
        /\ SameRecords(parsed[1].val, held)
        /\ Len(parsed[1].val) = gen[1].count
        /\ gen[1].count = 0 => (text[1] = <<91, 93>> /\ parsed[1].val = <<>>)

\* A ten-record sequence with a negative value has gone through the round trip.
C1_Witness ==
    /\ gen # <<>> /\ parsed # <<>>
    /\ gen[1].count = 10
    /\ \E i \in 1..Len(held) : held[i].value[4] >= 128

\* C2 (SpecLib): serialize_to_json emits exactly the wire grammar: "[]" for
\* the empty sequence, else '[', the records in order as
\* {"id":<id>,"value":<value>,"flag":<true|false>,"name":"<name bytes>"}
\* joined by single commas, ']', no whitespace; id and value in plain
\* decimal without leading zeros, 0 as "0", '-' before every negative value.
C2_WireGrammar == text # <<>> => MatchesWire(text[1], held)

\* Two records, one with value -2147483648 and one with id 0, were serialized.
C2_Witness ==
    /\ text # <<>>
    /\ Len(held) = 2
    /\ \E i \in 1..2 : held[i].value = I32_MIN
    /\ \E i \in 1..2 : held[i].id = <<0, 0, 0, 0>>

\* C3 (SpecLib): fnv1a_hash_records starts from 2166136261 and folds in, for
\* each record in order, the 4 little-endian bytes of id, the 4 of value, one
\* byte for flag (1 or 0) and every byte of name, each byte as
\* acc = ((acc XOR byte) * 16777619) mod 2^32; the hash of the empty sequence
\* is 2166136261.
C3_HashDefinition ==
    digest # <<>> =>
        /\ digest[1] = RefFnv(held)
        /\ held = <<>> => digest[1] = <<197, 157, 28, 129>>

\* The hash of two records with different ids, values, flags and names.
C3_Witness ==
    /\ digest # <<>>
    /\ Len(held) = 2
    /\ held[1].id # held[2].id /\ held[1].value # held[2].value
    /\ held[1].flag # held[2].flag /\ held[1].name # <<>>

\* C4 (SpecLcg): linear_congruential_generator replaces the caller's seed by
\* (seed * 1664525 + 1013904223) mod 2^32 and returns that new word; the
\* matrix task's generator is the same function.
C4_LcgStep ==
    drawn # <<>> =>
        /\ drawn[1].ret = RefLcg(drawn[1].from)
        /\ rng = drawn[1].ret
        /\ linear_congruential_generator(drawn[1].from)
             = matrix_linear_congruential_generator(drawn[1].from)

\* A draw from the seed 2^32 - 1, where the multiplication wraps.
C4_Witness ==
    /\ drawn # <<>>
    /\ drawn[1].from = MaxWord
    /\ drawn[1].by = "json"

RECURSIVE DigitsValue(_)
\* The value of a short string of ASCII digits.
DigitsValue(ds) ==
    IF ds = <<>> THEN 0
    ELSE 10 * DigitsValue(SubSeq(ds, 1, Len(ds) - 1)) + (ds[Len(ds)] - 48)

\* name is "a" followed by the decimal digits of i >= 1.
IsNameOf(name, i) ==
    /\ Len(name) \in 2..6
    /\ name[1] = 97
    /\ \A k \in 2..Len(name) : name[k] \in 48..57
    /\ name[2] # 48
    /\ DigitsValue(Tail(name)) = i

\* C5 (SpecLib): sequential id law.  generate_json_records(count, seed)
\* returns exactly count records, and the record at 1-indexed position i has
\* id = i and name = "a" followed by the decimal digits of i.
C5_SequentialIds ==
    gen # <<>> =>
        /\ Len(held) = gen[1].count
        /\ \A i \in 1..Len(held) :
              /\ Half(held[i].id) = [lo |-> i, hi |-> 0]
              /\ IsNameOf(held[i].name, i)

\* Ten records were generated: the last has a two-digit name.
C5_Witness == gen # <<>> /\ gen[1].count = 10 /\ Len(held[10].name) = 3

\* The i32 v is even: its magnitude is.
IsEvenI32(v) ==
    IF v[4] >= 128 THEN Magnitude(Half(v)).lo % 2 = 0 ELSE Half(v).lo % 2 = 0

\* C6 (SpecLib): flag derivation law.  Every generated record has
\* flag = (value is even), for negative values as for non-negative ones.
C6_FlagIsEvenness ==
    gen # <<>> => \A i \in 1..Len(held) : held[i].flag <=> IsEvenI32(held[i].value)

\* A generated sequence with a negative odd, a negative even and a
\* non-negative odd value.
C6_Witness ==
    /\ gen # <<>>
    /\ \E i \in 1..Len(held) : held[i].value[4] >= 128 /\ ~held[i].flag
    /\ \E i \in 1..Len(held) : held[i].value[4] >= 128 /\ held[i].flag
    /\ \E i \in 1..Len(held) : held[i].value[4] < 128 /\ ~held[i].flag

\* C7 (SpecLib): generation is a function of (count, seed): record i's value
\* is the i-th generator output after the seed, read as an i32; there is one
\* draw per record and none when count is 0.
C7_OneDrawPerRecord ==
    gen # <<>> =>
        LET draws_ == RefDraws(gen[1].seed, gen[1].count)
        IN  /\ Len(held) = Len(draws_)
            /\ \A i \in 1..Len(held) : held[i].value = draws_[i]
            /\ gen[1].rng_state = IF gen[1].count = 0 THEN gen[1].seed
                                  ELSE draws_[gen[1].count]
            /\ held = generate_json_records(gen[1].count, gen[1].seed)

\* Three records generated from seed 12345.
C7_Witness ==
    /\ gen # <<>>
    /\ gen[1].count = 3
    /\ gen[1].seed = <<57, 48, 0, 0>>
    /\ gen[1].rng_state # gen[1].seed

\* One ParseError of every variant.
SomeParseErrors ==
    {UnexpectedEndOfInput, InvalidObjectFormat, InvalidArrayFormat, InvalidBoolean,
     InvalidNumber("Number overflow"), InvalidString("Unterminated string"),
     MissingField(Lit(<<"i", "d">>)), UnknownField(Lit(<<"x">>))}

\* C8 (Spec): run_task reads (record_count, seed) from the two words of its
\* buffer, generates, serializes, parses the text back and returns the hash
\* of the parsed records; a parse error makes it return 0, never anything
\* else; for record_count 0 it returns 2166136261.
C8_RunTaskPipeline ==
    /\ last_run # <<>> =>
          LET n       == Half(last_run[1].count).lo
              parsed_ == parse_json_string(serialize_to_json(
                             generate_json_records(n, last_run[1].seed)))
          IN  /\ Half(last_run[1].count).hi = 0
              /\ parsed_.tag = "Ok"
              /\ last_run[1].ret = RefFnv(parsed_.val)
              /\ n = 0 => last_run[1].ret = <<197, 157, 28, 129>>
    /\ \A e \in SomeParseErrors : run_task_result(Err(0, e)) = <<0, 0, 0, 0>>

\* run_task has returned for two records and a seed that is not 0.
C8_Witness ==
    /\ call = "run_task"
    /\ last_run # <<>>
    /\ last_run[1].count = <<2, 0, 0, 0>>
    /\ last_run[1].seed = <<42, 0, 0, 0>>

\* C9 (Spec): no state survives between calls.  init changes nothing,
\* run_task does not write to the parameter buffer, and a run_task call with
\* the parameters of the run_task call before it (whatever init and alloc
\* calls lie between them) returns the value that call returned.
C9_NoStateSurvives ==
    [][/\ call' = "init" => UNCHANGED <<pbuf, last_run, lib_vars, lcg_vars, parse_vars>>
       /\ call' = "run_task" =>
             /\ pbuf' = pbuf
             /\ last_run'[1].repeat => last_run'[1].same]_vars

\* run_task was called again with the parameters of the call before it.
C9_Witness ==
    /\ call = "run_task"
    /\ last_run # <<>>
    /\ last_run[1].repeat
    /\ last_run[1].count = <<2, 0, 0, 0>>

\* C10 (SpecParse): the parser never aborts.  On every byte string,
\* parse_json_string and, from every start position up to the length,
\* parse_json_string_value, parse_json_number and parse_json_boolean return
\* Ok or a ParseError; the cursor does not move backward and does not pass
\* the end of the input, and no byte is read at or beyond the end.
C10_ParserNeverAborts ==
    outcome # <<>> =>
        /\ outcome[1].r.tag \in {"Ok", "Err"}
        /\ outcome[1].start <= outcome[1].r.pos
        /\ outcome[1].r.pos <= Len(input)

\* parse_json_number was called with the cursor at the end of a non-empty
\* input.
C10_Witness ==
    /\ outcome # <<>>
    /\ outcome[1].fn = "parse_json_number"
    /\ input # <<>>
    /\ outcome[1].start = Len(input)
    /\ outcome[1].r.tag = "Err"

(***************************************************************************)
(* Reference reading of a string literal, for the properties of the        *)
(* string parser.  Positions are 1-indexed here.                           *)
(***************************************************************************)
Whitespace == {32, 9, 10, 13}

\* The position of the quote that closes the string opened at position q:
\* the first quote after q that no backslash escapes; 0 when there is none.
RefClosingQuote(t, q) ==
    LET quotes == {i \in (q + 1)..Len(t) :
                      t[i] = 34 /\ BackslashRun(t, q + 1, i) % 2 = 0}
    IN  IF quotes = {} THEN 0
        ELSE CHOOSE i \in quotes : \A k \in quotes : i <= k

\* The position of the opening quote of the literal that a call with cursor
\* `start` reads: the first byte after the whitespace, when it is a quote;
\* 0 otherwise.
RefOpeningQuote(t, start) ==
    IF RunEnd(t, start, Whitespace) < Len(t) /\ t[RunEnd(t, start, Whitespace) + 1] = 34
    THEN RunEnd(t, start, Whitespace) + 1
    ELSE 0

\* C11 (SpecParse): parse_json_string_value fails with InvalidString whenever
\* the input ends before an unescaped closing quote, with or without a
\* backslash escape in the body; it never returns Ok for an unterminated
\* string.
C11_UnterminatedIsError ==
    (/\ outcome # <<>>
     /\ outcome[1].fn = "parse_json_string_value"
     /\ RefOpeningQuote(input, outcome[1].start) > 0
     /\ RefClosingQuote(input, RefOpeningQuote(input, outcome[1].start)) = 0) =>
        /\ outcome[1].r.tag = "Err"
        /\ outcome[1].r.val.kind = "InvalidString"

\* The byte at position i of the body that starts at `from` is the second
\* byte of a backslash pair.
IsEscaped(t, from, i) == BackslashRun(t, from, i) % 2 = 1

\* The byte at position i is the backslash that opens a pair.
IsEscapeLead(t, from, i) == t[i] = 92 /\ ~IsEscaped(t, from, i)

\* The character a supported escape letter stands for.
EscapeChar(b) ==
    CASE b = 110 -> 10
      [] b = 114 -> 13
      [] b = 116 -> 9
      [] OTHER   -> b

SupportedEscapes == {34, 92, 110, 114, 116}

\* The body between the quotes at q and c with each backslash pair replaced
\* by its character and every other byte kept as it is.
RefUnescape(t, q, c) ==
    LET kept == {i \in (q + 1)..(c - 1) : ~IsEscapeLead(t, q + 1, i)}
        nth(k) == CHOOSE i \in kept : Cardinality({j \in kept : j < i}) = k - 1
    IN  [k \in 1..Cardinality(kept) |->
            IF IsEscaped(t, q + 1, nth(k)) THEN EscapeChar(t[nth(k)]) ELSE t[nth(k)]]

\* The call read a terminated literal whose body has at least one backslash
\* pair, all of them supported.
EscapedLiteral(t, start) ==
    /\ RefOpeningQuote(t, start) > 0
    /\ RefClosingQuote(t, RefOpeningQuote(t, start)) > 0
    /\ \E i \in (RefOpeningQuote(t, start) + 1)..(RefClosingQuote(t, RefOpeningQuote(t, start)) - 1) :
          t[i] = 92
    /\ \A i \in (RefOpeningQuote(t, start) + 1)..(RefClosingQuote(t, RefOpeningQuote(t, start)) - 1) :
          IsEscaped(t, RefOpeningQuote(t, start) + 1, i) => t[i] \in SupportedEscapes

\* C12 (SpecParse): in a string with escapes every byte outside a backslash
\* pair contributes the text it contributes on the no-escape path (multi-byte
\* UTF-8 sequences kept, invalid UTF-8 rejected); only the pairs are replaced
\* by their characters.
C12_EscapePathAgrees ==
    (/\ outcome # <<>>
     /\ outcome[1].fn = "parse_json_string_value"
     /\ EscapedLiteral(input, outcome[1].start)) =>
        IF is_utf8(RefUnescape(input, RefOpeningQuote(input, outcome[1].start),
                               RefClosingQuote(input, RefOpeningQuote(input, outcome[1].start))))
        THEN /\ outcome[1].r.tag = "Ok"
             /\ outcome[1].r.val =
                    RefUnescape(input, RefOpeningQuote(input, outcome[1].start),
                                RefClosingQuote(input, RefOpeningQuote(input, outcome[1].start)))
             /\ outcome[1].r.pos = RefClosingQuote(input, RefOpeningQuote(input, outcome[1].start))
        ELSE /\ outcome[1].r.tag = "Err"
             /\ outcome[1].r.val.kind = "InvalidString"

(***************************************************************************)
(* Reference reading of a number literal: the numeral is compared digit by *)
(* digit with the bounds of the i32 range, so its length is not limited.   *)
(***************************************************************************)
Digits == 48..57

\* The cursor after the whitespace and the optional '-' of the literal that a
\* call with cursor `start` reads.
LiteralDigits(t, start) ==
    IF RunEnd(t, start, Whitespace) < Len(t) /\ t[RunEnd(t, start, Whitespace) + 1] = 45
    THEN RunEnd(t, start, Whitespace) + 1
    ELSE RunEnd(t, start, Whitespace)

LiteralIsNegative(t, start) == LiteralDigits(t, start) > RunEnd(t, start, Whitespace)

\* The call reads optional '-' followed by one or more digits.
IsLiteral(t, start) == RunEnd(t, LiteralDigits(t, start), Digits) > LiteralDigits(t, start)

\* The digits of the literal without its leading zeros.
Significant(t, start) ==
    SubSeq(t, RunEnd(t, LiteralDigits(t, start), {48}) + 1,
              RunEnd(t, LiteralDigits(t, start), Digits))

\* a <= b for two numerals of the same length.
NumeralLeq(a, b) ==
    \/ a = b
    \/ \E k \in 1..Len(a) : a[k] < b[k] /\ \A j \in 1..(k - 1) : a[j] = b[j]

\* The numerals 2147483647 and 2147483648.
I32MaxNumeral == <<50, 49, 52, 55, 52, 56, 51, 54, 52, 55>>
I32MinMagnitudeNumeral == <<50, 49, 52, 55, 52, 56, 51, 54, 52, 56>>

\* The literal's mathematical value lies in [-2147483648, 2147483647].
LiteralInRange(t, start) ==
    \/ Len(Significant(t, start)) < 10
    \/ /\ Len(Significant(t, start)) = 10
       /\ NumeralLeq(Significant(t, start),
                     IF LiteralIsNegative(t, start) THEN I32MinMagnitudeNumeral
                     ELSE I32MaxNumeral)

\* The i32 word of an in-range literal.
LiteralWord(t, start) ==
    LET h == Horner(Significant(t, start))
        m == [lo |-> h[1], hi |-> h[2]]
    IN  IF LiteralIsNegative(t, start) /\ m # [lo |-> 0, hi |-> 0]
        THEN Word(Magnitude(m))
        ELSE Word(m)

\* C13 (SpecParse): a number literal is never silently truncated.  For optional
\* '-' followed by one or more digits, of any length, parse_json_number
\* returns Ok(v) exactly when the literal's value lies in
\* [-2147483648, 2147483647], with v that value, and InvalidNumber otherwise;
\* the 64-bit accumulator never overflows.
C13_NumberNeverTruncated ==
    (/\ outcome # <<>>
     /\ outcome[1].fn = "parse_json_number"
     /\ IsLiteral(input, outcome[1].start)) =>
        IF LiteralInRange(input, outcome[1].start)
        THEN /\ outcome[1].r.tag = "Ok"
             /\ outcome[1].r.val = LiteralWord(input, outcome[1].start)
        ELSE /\ outcome[1].r.tag = "Err"
             /\ outcome[1].r.val.kind = "InvalidNumber"

\* A literal of twenty digits or more, more than an i64 holds, was refused.
C13_Witness ==
    /\ outcome # <<>>
    /\ outcome[1].fn = "parse_json_number"
    /\ IsLiteral(input, outcome[1].start)
    /\ Len(Significant(input, outcome[1].start)) >= 20
    /\ outcome[1].r.tag = "Err"
    /\ outcome[1].r.val.kind = "InvalidNumber"

(***************************************************************************)
(* Properties of the parse of an assembled text                            *)
(***************************************************************************)
\* The last call parsed a text assembled in the way `kind`.
Shaped(kind) ==
    /\ outcome # <<>>
    /\ "shape" \in DOMAIN outcome[1]
    /\ outcome[1].shape.kind = kind

KeysOf(keys) == {keys[i] : i \in DOMAIN keys}

\* The member list lacks one of the four fields.
Lacking(keys) == \E i \in 1..4 : FieldKeys[i] \notin KeysOf(keys)

\* The first absent key in the order id, value, flag, name.
FirstAbsent(keys) ==
    FieldKeys[CHOOSE i \in 1..4 :
                 /\ FieldKeys[i] \notin KeysOf(keys)
                 /\ \A j \in 1..(i - 1) : FieldKeys[j] \in KeysOf(keys)]

\* What follows the members begins, after optional whitespace, with '}'.
ReachesBrace(close) ==
    /\ RunEnd(close, 0, Whitespace) < Len(close)
    /\ close[RunEnd(close, 0, Whitespace) + 1] = 125

\* C14 (SpecText): a record object with at least one member that reaches its
\* closing '}' while lacking any of id, value, flag, name fails with
\* MissingField naming the first absent key in the order id, value, flag,
\* name; an object that is cut off or malformed before the '}' reports that
\* earlier error and never MissingField.
C14_MissingFieldAfterBrace ==
    (/\ Shaped("record")
     /\ outcome[1].shape.keys # <<>>
     /\ Lacking(outcome[1].shape.keys)) =>
        /\ outcome[1].r.tag = "Err"
        /\ IF ReachesBrace(outcome[1].shape.close)
           THEN outcome[1].r.val = MissingField(FirstAbsent(outcome[1].shape.keys))
           ELSE outcome[1].r.val.kind # "MissingField"

\* The second object of an array has a name only, and its '}' was read.
C14_Witness ==
    /\ Shaped("record")
    /\ outcome[1].shape.before = 1
    /\ outcome[1].shape.keys = <<FieldKeys[4]>>
    /\ ReachesBrace(outcome[1].shape.close)
    /\ outcome[1].r.val = MissingField(FieldKeys[1])

\* C14 as stated, for every record object, the one without members included:
\* reaching the '}' while lacking a field fails with MissingField naming the
\* first absent key.
C14_AnyObjectMissingField ==
    (/\ Shaped("record")
     /\ Lacking(outcome[1].shape.keys)) =>
        /\ outcome[1].r.tag = "Err"
        /\ IF ReachesBrace(outcome[1].shape.close)
           THEN outcome[1].r.val = MissingField(FirstAbsent(outcome[1].shape.keys))
           ELSE outcome[1].r.val.kind # "MissingField"

\* C15 (SpecText): the key set is closed.  A member key whose decoded text is
\* not exactly, case-sensitively, one of "id", "value", "flag", "name" makes
\* the parse fail with UnknownField carrying the decoded key, as soon as the
\* key and its ':' are read: whatever follows the ':' (a value, a byte that
\* starts no value, the end of the input) is not examined.
C15_ClosedKeySet ==
    Shaped("unknown") =>
        /\ outcome[1].shape.key.decoded \notin {FieldKeys[i] : i \in 1..4}
        /\ outcome[1].r.tag = "Err"
        /\ outcome[1].r.val = UnknownField(outcome[1].shape.key.decoded)

\* After a well-formed member, a key written with an escape and followed
\* by ':' and a byte that starts no value was reported in its decoded form.
C15_Witness ==
    /\ Shaped("unknown")
    /\ Len(outcome[1].shape.keys) = 1
    /\ outcome[1].shape.key.raw # outcome[1].shape.key.decoded
    /\ outcome[1].shape.rest = <<64>>
    /\ outcome[1].r.val = UnknownField(outcome[1].shape.key.decoded)

\* The number of commas in what follows the last object.
Commas(tail) == Cardinality({i \in DOMAIN tail : tail[i] = 44})

\* The records of the first n objects.
ArrayRecords(n) == [i \in 1..n |-> ObjectRecord(i)]

\* C16 (SpecText): a trailing comma before ']' is accepted.  A text with at
\* least one object that parses to records r still parses to r when one ','
\* (optionally surrounded by whitespace) is inserted immediately before the
\* closing ']'; a comma with no preceding object ("[,]") or two consecutive
\* commas is rejected.
C16_TrailingComma ==
    Shaped("array") =>
        IF outcome[1].shape.n >= 1 /\ Commas(outcome[1].shape.tail) <= 1
        THEN /\ outcome[1].r.tag = "Ok"
             /\ outcome[1].r.val = ArrayRecords(outcome[1].shape.n)
             /\ outcome[1].r.val =
                    parse_json_string(<<91>> \o ArrayItems(outcome[1].shape.n) \o <<93>>).val
        ELSE IF Commas(outcome[1].shape.tail) >= 1
        THEN outcome[1].r.tag = "Err"
        ELSE outcome[1].r = Ok(2, <<>>)

\* Two objects and then a comma, whitespace and ']' gave the two records.
C16_Witness ==
    /\ Shaped("array")
    /\ outcome[1].shape.n = 2
    /\ outcome[1].shape.tail = <<44, 9, 13, 10, 93>>
    /\ outcome[1].r.tag = "Ok"
    /\ Len(outcome[1].r.val) = 2

\* C17 (SpecText): an empty object is rejected.  Whenever an object position,
\* the first of the array or a later one, holds '{' followed after optional
\* whitespace by '}', parse_json_string fails with InvalidObjectFormat; it
\* produces no record of default fields.
C17_EmptyObjectRejected ==
    (/\ Shaped("record")
     /\ outcome[1].shape.keys = <<>>
     /\ ReachesBrace(outcome[1].shape.close)) =>
        /\ outcome[1].r.tag = "Err"
        /\ outcome[1].r.val = InvalidObjectFormat

\* After a well-formed object, '{', whitespace and '}' were refused.
C17_Witness ==
    /\ Shaped("record")
    /\ outcome[1].shape.before = 1
    /\ outcome[1].shape.keys = <<>>
    /\ outcome[1].shape.close = <<32, 125, 10, 93>>
    /\ outcome[1].r.val = InvalidObjectFormat

\* The literal that a call with cursor `start` reads is terminated.
TerminatedLiteral(t, start) ==
    /\ RefOpeningQuote(t, start) > 0
    /\ RefClosingQuote(t, RefOpeningQuote(t, start)) > 0

\* The second bytes of the backslash pairs of a terminated literal.
EscapedBytes(t, start) ==
    {t[i] : i \in {k \in (RefOpeningQuote(t, start) + 1)..
                         (RefClosingQuote(t, RefOpeningQuote(t, start)) - 1) :
                      IsEscaped(t, RefOpeningQuote(t, start) + 1, k)}}

\* Every byte between the quotes is ASCII.
AsciiBody(t, start) ==
    \A i \in (RefOpeningQuote(t, start) + 1)..
             (RefClosingQuote(t, RefOpeningQuote(t, start)) - 1) : t[i] < 128

\* C18 (SpecParse): string escapes are limited to \" \\ \n \r \t.  A backslash
\* followed by any other byte inside a terminated string makes
\* parse_json_string_value fail with InvalidString, and each supported pair
\* decodes to its single character (read on the strings whose other bytes
\* are ASCII, which decode to themselves).
C18_FiveEscapes ==
    (/\ outcome # <<>>
     /\ outcome[1].fn = "parse_json_string_value"
     /\ TerminatedLiteral(input, outcome[1].start)
     /\ EscapedBytes(input, outcome[1].start) # {}) =>
        IF ~(EscapedBytes(input, outcome[1].start) \subseteq SupportedEscapes)
        THEN /\ outcome[1].r.tag = "Err"
             /\ outcome[1].r.val.kind = "InvalidString"
        ELSE AsciiBody(input, outcome[1].start) =>
                /\ outcome[1].r.tag = "Ok"
                /\ outcome[1].r.val =
                       RefUnescape(input, RefOpeningQuote(input, outcome[1].start),
                                   RefClosingQuote(input, RefOpeningQuote(input, outcome[1].start)))

\* A terminated string with the pair \u was refused.
C18_Witness ==
    /\ outcome # <<>>
    /\ outcome[1].fn = "parse_json_string_value"
    /\ TerminatedLiteral(input, outcome[1].start)
    /\ 117 \in EscapedBytes(input, outcome[1].start)
    /\ outcome[1].r.tag = "Err"
    /\ outcome[1].r.val.kind = "InvalidString"

\* C19 (SpecText): whitespace tolerance.  Inserting a run of space, tab,
\* newline or carriage-return bytes before or after a structural token
\* ('[', ']', '{', '}', ':', ',') of an accepted text, or before the text,
\* does not change the parse result.
C19_WhitespaceTolerance ==
    Shaped("spaced") =>
        /\ parse_json_string(outcome[1].shape.base).tag = "Ok"
        /\ outcome[1].r.tag = "Ok"
        /\ outcome[1].r.val = parse_json_string(outcome[1].shape.base).val

\* A run of the four whitespace bytes went between a key and its ':' in a
\* text of two records, one of whose names holds the structural bytes.
C19_Witness ==
    /\ Shaped("spaced")
    /\ outcome[1].shape.base = DocPunctuated
    /\ outcome[1].shape.run = <<32, 9, 13, 10>>
    /\ outcome[1].shape.k < Len(DocPunctuated)
    /\ DocPunctuated[outcome[1].shape.k + 1] = 58
    /\ outcome[1].r.tag = "Ok"
    /\ Len(outcome[1].r.val) = 2

\* C20 (SpecParse): an input whose first non-whitespace byte is not '[', the
\* empty input and "invalid" included, fails with the structural error
\* InvalidArrayFormat; no record is produced.
C20_MustOpenWithBracket ==
    (/\ outcome # <<>>
     /\ outcome[1].fn = "parse_json_string"
     /\ \/ RunEnd(input, 0, Whitespace) = Len(input)
        \/ input[RunEnd(input, 0, Whitespace) + 1] # 91) =>
        /\ outcome[1].r.tag = "Err"
        /\ outcome[1].r.val = InvalidArrayFormat

\* parse_json_string("invalid") failed with InvalidArrayFormat.
C20_Witness ==
    /\ outcome # <<>>
    /\ outcome[1].fn = "parse_json_string"
    /\ input = DocInvalid
    /\ outcome[1].r.tag = "Err"
    /\ outcome[1].r.val = InvalidArrayFormat

\* No name of the records holds a '"' or a '\'.
PlainNames(rs) ==
    \A i \in DOMAIN rs : \A k \in DOMAIN rs[i].name : rs[i].name[k] \notin {34, 92}

\* C24 (SpecText): parsing yields the complete record sequence or an error,
\* never a partial list.  For every output t of serialize_to_json on records
\* whose names hold neither '"' nor '\' (every generated sequence is one),
\* every proper prefix of t is rejected with a ParseError.
C24_NoPartialResult ==
    (Shaped("prefix") /\ PlainNames(outcome[1].shape.records)) =>
        outcome[1].r.tag = "Err"

\* The text of two generated records, cut one byte before its end, was
\* rejected.
C24_Witness ==
    /\ Shaped("prefix")
    /\ Len(outcome[1].shape.records) = 2
    /\ \A i \in 1..2 : outcome[1].shape.records[i].name = <<97, 48 + i>>
    /\ outcome[1].shape.records[1].value # U32(123)
    /\ outcome[1].shape.k = outcome[1].shape.whole - 1
    /\ outcome[1].r.tag = "Err"

\* C24 as stated, for every output of serialize_to_json: every proper prefix
\* is rejected.
C24_EveryOutputPrefixRejected ==
    Shaped("prefix") => outcome[1].r.tag = "Err"

\* C26 (SpecText): parse_json_string stops at the array's closing ']' and
\* never examines later bytes.  If a text t parses to Ok(r), then t followed
\* by any byte string parses to Ok(r) too, the cursor resting where it rested
\* for t.
C26_TrailingBytesIgnored ==
    Shaped("suffix") =>
        /\ parse_json_string(outcome[1].shape.base).tag = "Ok"
        /\ outcome[1].r = parse_json_string(outcome[1].shape.base)
        /\ outcome[1].r.pos <= Len(outcome[1].shape.base)

\* A text of two records followed by ",{" gave the two records.
C26_Witness ==
    /\ Shaped("suffix")
    /\ outcome[1].shape.base = DocPunctuated
    /\ outcome[1].shape.suffix = <<44, 123>>
    /\ outcome[1].r.tag = "Ok"
    /\ Len(outcome[1].r.val) = 2

\* C27 (SpecText): the id is parsed with the signed 32-bit number routine and
\* then cast to unsigned.  An id literal in [0, 2147483647] yields that id; a
\* literal in [-2147483648, -1] is accepted and yields literal + 2^32; a
\* literal in [2147483648, 4294967295], which serialize_to_json emits for
\* such a u32 id, is rejected with InvalidNumber.
C27_IdSignedThenCast ==
    Shaped("id") =>
        IF ~outcome[1].shape.neg
        THEN IF outcome[1].shape.w[4] < 128
             THEN /\ outcome[1].r.tag = "Ok"
                  /\ outcome[1].r.val[1].id = outcome[1].shape.w
             ELSE /\ outcome[1].r.tag = "Err"
                  /\ outcome[1].r.val.kind = "InvalidNumber"
        ELSE IF outcome[1].shape.w = <<0, 0, 0, 0>>
             THEN outcome[1].r.tag = "Ok" /\ outcome[1].r.val[1].id = <<0, 0, 0, 0>>
        ELSE IF outcome[1].shape.w[4] < 128 \/ outcome[1].shape.w = <<0, 0, 0, 128>>
             THEN /\ outcome[1].r.tag = "Ok"
                  /\ outcome[1].r.val[1].id = Word(Magnitude(Half(outcome[1].shape.w)))
        ELSE /\ outcome[1].r.tag = "Err"
             /\ outcome[1].r.val.kind = "InvalidNumber"

\* The id 4294967295 as the serializer writes it was refused.
C27_Witness ==
    /\ Shaped("id")
    /\ ~outcome[1].shape.neg
    /\ outcome[1].shape.w = <<255, 255, 255, 255>>
    /\ outcome[1].r.tag = "Err"
    /\ outcome[1].r.val.kind = "InvalidNumber"

\* C28 (SpecLib): for any record sequence, generated or not, whose ids are at
\* most 2147483647 and whose names hold neither '"' nor '\',
\* parse_json_string(serialize_to_json(r)) = r; and because names are written
\* unescaped, no sequence outside that set comes back from the round trip.
C28_RoundTripDomain ==
    (text # <<>> /\ parsed # <<>>) =>
        ((\A i \in DOMAIN held : held[i].id[4] < 128) /\ PlainNames(held))
            <=> (parsed[1].tag = "Ok" /\ parsed[1].val = held)

\* Two records built by hand, one with id 0 and an empty name and one with a
\* two-byte UTF-8 name, came back from the round trip.
C28_Witness ==
    /\ gen = <<>> /\ text # <<>> /\ parsed # <<>>
    /\ Len(held) = 2
    /\ held[1].name = <<>> /\ held[1].id = <<0, 0, 0, 0>>
    /\ held[2].name = <<195, 169>>
    /\ parsed[1].tag = "Ok"
    /\ parsed[1].val = held

\* The index of the last member of `keys` with the key `key`.
LastOccurrence(keys, key) ==
    CHOOSE i \in DOMAIN keys :
        keys[i] = key /\ \A j \in DOMAIN keys : keys[j] = key => j <= i

\* C29 (SpecText): repeated keys are not an error.  When an object repeats
\* some of the four keys and all four are present, parsing succeeds and each
\* field of the record holds the value of the last member with its key,
\* whatever the order of the members.
C29_LastOccurrenceWins ==
    Shaped("repeated") =>
        LET keys == outcome[1].shape.keys
            last(f) == LastOccurrence(keys, FieldKeys[f])
        IN  /\ outcome[1].r.tag = "Ok"
            /\ Len(outcome[1].r.val) = 1
            /\ outcome[1].r.val[1].id = <<last(1), 0, 0, 0>>
            /\ outcome[1].r.val[1].value = <<256 - last(2), 255, 255, 255>>
            /\ outcome[1].r.val[1].flag = (last(3) % 2 = 1)
            /\ outcome[1].r.val[1].name = <<110, 48 + last(4)>>

\* "flag" came first and again last, "id" twice in between: the record holds
\* the second id and the flag of the last member, not of the first.
C29_Witness ==
    /\ Shaped("repeated")
    /\ outcome[1].shape.keys
         = <<FieldKeys[3], FieldKeys[1], FieldKeys[4], FieldKeys[1], FieldKeys[2], FieldKeys[3]>>
    /\ outcome[1].r.tag = "Ok"
    /\ outcome[1].r.val[1].id = <<4, 0, 0, 0>>
    /\ outcome[1].r.val[1].flag = FALSE

(***************************************************************************)
(* Properties of the matrix and Mandelbrot kernels                         *)
(***************************************************************************)
Called(fn) == outcome # <<>> /\ outcome[1].fn = fn

\* C23 (SpecKernel): the matrix task's validate_parameters returns true
\* exactly when 1 <= dimension <= 2000, for every 32-bit dimension and every
\* seed; for such a dimension none of the checked multiplications overflows
\* and the total of 12 * dimension^2 bytes does not exceed 256 MiB.
C23_DimensionRange ==
    Called("validate_parameters") =>
        LET d == Half(outcome[1].params.dimension)
            inside == d.hi = 0 /\ 1 <= d.lo /\ d.lo <= 2000
            elements == checked_mul(outcome[1].params.dimension,
                                    outcome[1].params.dimension)
        IN  /\ outcome[1].r = inside
            /\ inside =>
                 /\ elements = <<Word([lo |-> (d.lo * d.lo) % 65536,
                                       hi |-> (d.lo * d.lo) \div 65536])>>
                 /\ checked_mul(elements[1], U32(4)) # <<>>
                 /\ checked_mul(checked_mul(elements[1], U32(4))[1], U32(3))
                      = <<Word([lo |-> (12 * d.lo * d.lo) % 65536,
                                hi |-> (12 * d.lo * d.lo) \div 65536])>>
                 /\ 12 * d.lo * d.lo <= 268435456

\* The largest dimension, with the largest seed, was accepted.
C23_Witness ==
    /\ Called("validate_parameters")
    /\ outcome[1].params.dimension = <<208, 7, 0, 0>>
    /\ outcome[1].params.seed = <<255, 255, 255, 255>>
    /\ outcome[1].r = TRUE

\* C21 (SpecKernel): in every task (JSON, Mandelbrot, matrix), alloc(n)
\* returns null when n is 0 or n exceeds 1073741824, and otherwise, when the
\* system allocator succeeds, returns a buffer whose bytes are all zero.
C21_AllocZeroedUnderCeiling ==
    Called("alloc") =>
        LET n == Half(outcome[1].n_bytes)
        IN  IF (n.hi = 0 /\ n.lo = 0) \/ n.hi > 16384 \/ (n.hi = 16384 /\ n.lo > 0)
            THEN outcome[1].r = <<>>
            ELSE outcome[1].block # <<>> =>
                   /\ outcome[1].r # <<>>
                   /\ \A i \in DOMAIN outcome[1].r[1] : outcome[1].r[1][i] = 0

\* Reference value of an f32 expression over integer literals.  A sum or a
\* product below 2^24 in magnitude is exact; above, it is rounded to the
\* nearest multiple of the spacing of the f32 grid there, ties to the even
\* significand.
RoundF32(x) ==
    LET m == IF x < 0 THEN 0 - x ELSE x
    IN  IF m < 16777216 THEN x
        ELSE LET u == CHOOSE p \in {2, 4, 8, 16, 32, 64} :
                         m < 16777216 * p /\ m >= 8388608 * p
                 q == m \div u
                 up == 2 * (m % u) > u \/ (2 * (m % u) = u /\ q % 2 = 1)
                 rounded == IF up THEN (q + 1) * u ELSE q * u
             IN  IF x < 0 THEN 0 - rounded ELSE rounded

Finite(x) == [class |-> "finite", v |-> x]
Infinite(sign) == [class |-> "inf", v |-> sign]
NaN == [class |-> "nan", v |-> 0]

\* IEEE 754 addition and multiplication of reference values.
F32Add(x, y) ==
    IF x.class = "nan" \/ y.class = "nan" THEN NaN
    ELSE IF x.class = "inf" /\ y.class = "inf" THEN (IF x.v = y.v THEN x ELSE NaN)
    ELSE IF x.class = "inf" THEN x
    ELSE IF y.class = "inf" THEN y
    ELSE Finite(RoundF32(x.v + y.v))

F32Mul(x, y) ==
    IF x.class = "nan" \/ y.class = "nan" THEN NaN
    ELSE IF x.class = "inf" \/ y.class = "inf"
         THEN IF x.v = 0 \/ y.v = 0 THEN NaN
              ELSE Infinite(IF (x.v < 0) = (y.v < 0) THEN 1 ELSE -1)
    ELSE Finite(RoundF32(x.v * y.v))

\* a == b on f32: a NaN equals nothing.
F32Eq(x, y) == x.class # "nan" /\ y.class # "nan" /\ x = y

RECURSIVE Value(_)
Value(t) ==
    CASE t.f32 = "lit" -> Finite(t.v)
      [] t.f32 = "inf" -> Infinite(IF t.neg THEN -1 ELSE 1)
      [] t.f32 = "add" -> F32Add(Value(t.l), Value(t.r))
      [] t.f32 = "mul" -> F32Mul(Value(t.l), Value(t.r))

\* 0.0 + a[i][0] * b[0][j] + ... + a[i][k-1] * b[k-1][j], added from the left.
RECURSIVE SumTo(_, _, _, _, _)
SumTo(a, b, i, j, k) ==
    IF k = 0 THEN [f32 |-> "lit", v |-> 0]
    ELSE [f32 |-> "add", l |-> SumTo(a, b, i, j, k - 1),
          r |-> [f32 |-> "mul", l |-> a[i][k], r |-> b[k][j]]]

IsIdentity(b) == \A i \in DOMAIN b : \A j \in DOMAIN b : b[i][j].v = (IF i = j THEN 1 ELSE 0)
IsZeroMatrix(b) == \A i \in DOMAIN b : \A j \in DOMAIN b : b[i][j].v = 0
AllFinite(a) == \A i \in DOMAIN a : \A j \in DOMAIN a[i] : a[i][j].f32 = "lit"

\* After the call c is the n x n matrix of the sums taken from k = 0, and a
\* and b are as they were.
SumsFromZero ==
    LET a == outcome[1].a
        b == outcome[1].b
        n == Len(a)
        r == outcome[1].r
    IN  /\ r.a = a /\ r.b = b
        /\ DOMAIN r.c = 1..n
        /\ \A i \in 1..n :
              /\ DOMAIN r.c[i] = 1..n
              /\ \A j \in 1..n : r.c[i][j] = SumTo(a, b, i, j, n)

\* A x I = A and A x 0 = 0, cell by cell.
IdentityAndZero ==
    LET a == outcome[1].a
        b == outcome[1].b
        r == outcome[1].r
    IN  \A i \in DOMAIN a : \A j \in DOMAIN a :
           /\ IsIdentity(b) => F32Eq(Value(r.c[i][j]), Value(a[i][j]))
           /\ IsZeroMatrix(b) => F32Eq(Value(r.c[i][j]), Finite(0))

\* C25 (SpecKernel): naive_triple_loop_multiply computes C = A x B for n x n
\* inputs: after the call c[i][j] is the sum over k = 0..n-1 of
\* a[i][k] * b[k][j], added in increasing k starting from 0.0; what c held
\* before has no influence, a and b are unchanged; and when every entry of A
\* is finite, A x I = A and A x 0 = 0.
C25_Product ==
    Called("naive_triple_loop_multiply") =>
        /\ SumsFromZero
        /\ AllFinite(outcome[1].a) => IdentityAndZero

\* C25 as stated: A x I = A and A x 0 = 0 for every n x n input.
C25_ProductAnyEntries ==
    Called("naive_triple_loop_multiply") => (SumsFromZero /\ IdentityAndZero)

\* A row 16777216, 1, 1 was multiplied by a matrix of ones into a c that held
\* sevens: the sum taken from k = 0 is 16777216, where the same terms added
\* from the other end give 16777218.
C25_Witness ==
    /\ Called("naive_triple_loop_multiply")
    /\ Len(outcome[1].a) = 3
    /\ outcome[1].c[1][1] = [f32 |-> "lit", v |-> 7]
    /\ outcome[1].a[1] = <<[f32 |-> "lit", v |-> 16777216], [f32 |-> "lit", v |-> 1],
                           [f32 |-> "lit", v |-> 1]>>
    /\ AllFinite(outcome[1].a)
    /\ \A i \in 1..3 : outcome[1].b[i][1].v = 1
    /\ Value(outcome[1].r.c[1][1]) = Finite(16777216)

\* C30 (SpecKernel): in the matrix run_task, A and B are drawn from one
\* generator stream threaded through the seed: with n = dimension, A[i][j]
\* is converted from draw number i*n + j + 1 and B[i][j] from draw number
\* n*n + i*n + j + 1 of the sequence that starts at params.seed, row by row;
\* B is not generated from the original seed again, and params.seed in the
\* caller's buffer is not modified.
C30_OneStream ==
    (Called("run_task") /\ outcome[1].task = "matrix"
                        /\ outcome[1].r.returned # "0") =>
        LET n == Half(outcome[1].params_ptr[1].dimension).lo
            stream == RefDraws(outcome[1].params_ptr[1].seed, 2 * n * n)
        IN  /\ outcome[1].r.params = outcome[1].params_ptr
            /\ \A i \in 0..(n - 1) : \A j \in 0..(n - 1) :
                  /\ outcome[1].r.matrix_a[i + 1][j + 1]
                       = lcg_to_float_range(stream[i * n + j + 1], -1, 1)
                  /\ outcome[1].r.matrix_b[i + 1][j + 1]
                       = lcg_to_float_range(stream[n * n + i * n + j + 1], -1, 1)
                  /\ outcome[1].r.matrix_b[i + 1][j + 1] # outcome[1].r.matrix_a[i + 1][j + 1]

\* A 2 x 2 task from the seed 12345 ran: B[1][1] is converted from the eighth
\* draw.
C30_Witness ==
    /\ Called("run_task") /\ outcome[1].task = "matrix"
    /\ outcome[1].params_ptr = <<[dimension |-> <<2, 0, 0, 0>>, seed |-> <<57, 48, 0, 0>>]>>
    /\ outcome[1].r.returned = "fnv1a_hash_matrix"
    /\ outcome[1].r.matrix_b[2][2].lcg_value
         = RefLcg(RefLcg(RefLcg(RefLcg(RefLcg(RefLcg(RefLcg(RefLcg(<<57, 48, 0, 0>>))))))))

\* The parameters the claim names as rejected, read from the caller's words.
MatrixRejected(p) ==
    LET d == Half(p.dimension)
    IN  (d.hi = 0 /\ d.lo = 0) \/ d.hi > 0 \/ d.lo > 2000

MandelbrotRejected(p) ==
    LET w == Half(p.width)
        h == Half(p.height)
    IN  \/ (w.hi = 0 /\ w.lo = 0) \/ w.hi > 0 \/ w.lo > 10000
        \/ (h.hi = 0 /\ h.lo = 0) \/ h.hi > 0 \/ h.lo > 10000
        \/ p.center_real.class # "finite" \/ p.center_imag.class # "finite"
        \/ p.scale_factor.class # "finite"
        \/ p.scale_factor.v <= 0

\* C22 (SpecKernel): parameter failures are reported as the 0 sentinel and
\* never abort.  The matrix and Mandelbrot run_task return 0, without
\* generating or computing anything, when the parameter pointer is null or
\* the parameters are rejected (matrix: dimension 0 or above 2000;
\* Mandelbrot: width or height 0 or above 10000, a non-finite center or
\* scale, or scale_factor <= 0); the caller's parameters are left as written.
C22_ZeroOnRejection ==
    Called("run_task") =>
        LET ptr == outcome[1].params_ptr
            rejected == IF ptr = <<>> THEN TRUE
                        ELSE IF outcome[1].task = "matrix" THEN MatrixRejected(ptr[1])
                        ELSE MandelbrotRejected(ptr[1])
        IN  rejected => outcome[1].r = [returned |-> "0", params |-> ptr]

\* Mandelbrot parameters with the largest dimensions, a finite center and a
\* scale_factor of 0 were refused.
C22_Witness ==
    /\ Called("run_task") /\ outcome[1].task = "mandelbrot"
    /\ outcome[1].params_ptr # <<>>
    /\ outcome[1].params_ptr[1].width = <<16, 39, 0, 0>>
    /\ outcome[1].params_ptr[1].height = <<16, 39, 0, 0>>
    /\ outcome[1].params_ptr[1].center_real.class = "finite"
    /\ outcome[1].params_ptr[1].center_imag.class = "finite"
    /\ outcome[1].params_ptr[1].scale_factor = [class |-> "finite", v |-> 0]
    /\ outcome[1].r.returned = "0"

====
